---- MODULE Spec2Model ----
(***************************************************************************)
(* A model of luastatus: the host process (src/luastatus/luastatus.c), its *)
(* string-to-pointer map, the widget life cycle, the call_begin/call_end/  *)
(* call_cancel bridge and the locks that guard it.                         *)
(***************************************************************************)
EXTENDS Integers, Sequences, FiniteSets, TLC

\* ------------------------------------------------------------------ bounds

\* Number of widget files given on the command line (nwidgets).
NWidgets == 2

\* Number of distinct keys the modules pass to map_get.
NKeys == 2

\* Largest number of seconds a struct timespec of the udev plugin holds.
MaxSeconds == 1

\* Calls of push_timeout between two reads of the pushed timeout by run().
MaxPushes == 2

\* ------------------------------------------------------------- identities

Widgets == 0 .. (NWidgets - 1)

\* Threads: the thread of widget i is i; the main thread is MainT.
MainT == NWidgets
Threads == Widgets \cup {MainT}

\* Mutexes: widgets[i].L_mtx is i; sepstate.L_mtx and barlib.set_mtx follow.
SepLock == NWidgets
BarLock == NWidgets + 1
CtxLocks == 0 .. NWidgets
Locks == CtxLocks \cup {BarLock}

Keys == 1 .. NKeys

\* ------------------------------------------------------------- the inputs

\* What a widget file makes widget_init do: the step that fails ("none" when
\* all succeed) and the type of its widget.event field.  A file that fails
\* before the event field is inspected is listed once, with event "nil": the
\* code never reads the field on those paths.
EarlyFails == {"loadfile", "run", "table", "plugin_type", "plugin_load", "cb"}
LateFails == {"opts", "init", "none"}
Files ==
    [fail : EarlyFails, event : {"nil"}]
    \cup [fail : {"event"}, event : {"other", "badstring"}]
    \cup [fail : LateFails, event : {"nil", "function", "string"}]

VARIABLES
    status,     \* "running", or how the process ended: "abort", "exit_failure", "exit_success"
    pc,         \* the main thread's position in main()
    mi,         \* the loop index i of main's current loop
    widgets,    \* the widgets array
    sepstate,   \* the separate state
    barlib,     \* the bar library
    map,        \* the string-to-pointer map
    held,       \* per thread, the mutexes it holds, in the order it locked them
    th,         \* per widget, the state of its thread
    ew,         \* the event watcher's position (it runs on the main thread)
    eflag,      \* the -e flag, once main has read it
    ret,        \* main's ret
    lateGet,    \* history: a map_get succeeded off the main thread or after a thread was spawned
    got,        \* per key, the pointer map_get last returned to a client (0: none yet)
    lastget,    \* the last map_get call of a client and what it found and returned
    boot,       \* history: per widget, the set_error() calls and pthread_create calls of main's spawn loop
    loader,      \* the module loader's call in progress: its inputs, its position and what it has done
    req,         \* per Lua state and plugin name asked for: the registry of l_require_plugin and the history of its calls
    parse,       \* the last ls_full_strtou_b call: its arguments and what it and ls_full_strtou returned
    lk,          \* the locking protocol alone: main's and the threads' positions at the LOCK_ and UNLOCK_ sites, and each locked mutex's owner
    udev        \* the udev plugin: Priv, run() and the Lua code that calls push_timeout

vars == <<status, pc, mi, widgets, sepstate, barlib, map, held, th, ew, eflag, ret,
          lateGet, got, lastget, boot, loader, req, parse, lk, udev>>

\* ---------------------------------------------------------------- the map

\* map_get: abort when frozen; else the address of the value of the entry
\* with this key, appending an entry with a NULL value when there is none.
\* Each entry is its own allocation; its address is the allocation's number.
MapFind(m, key) ==
    LET hits == {i \in 1 .. Len(m.entries) : m.entries[i].key = key}
    IN  IF hits = {} THEN 0 ELSE CHOOSE i \in hits : \A j \in hits : i <= j

\* Two faulty variants of map_get, against which the properties of the frozen
\* map are tested: one never looks at map.frozen, the other looks for the key
\* first and refuses only to create an entry.
map_get_ignoring_frozen(m, key) ==
    LET i == MapFind(m, key)
    IN  IF i # 0
        THEN [abort |-> FALSE, ptr |-> m.entries[i].addr, map |-> m]
        ELSE LET a == Len(m.entries) + 1
             IN  [abort |-> FALSE, ptr |-> a,
                  map |-> [m EXCEPT !.entries =
                           Append(@, [addr |-> a, key |-> key, value |-> "NULL"])]]

map_get_lookup_first(m, key) ==
    LET i == MapFind(m, key)
    IN  IF i # 0
        THEN [abort |-> FALSE, ptr |-> m.entries[i].addr, map |-> m]
        ELSE IF m.frozen
             THEN [abort |-> TRUE, ptr |-> 0, map |-> m]
             ELSE LET a == Len(m.entries) + 1
                  IN  [abort |-> FALSE, ptr |-> a,
                       map |-> [m EXCEPT !.entries =
                                Append(@, [addr |-> a, key |-> key, value |-> "NULL"])]]

\* A third faulty variant: map_get creates an entry without looking for the
\* key.
map_get_without_lookup(m, key) ==
    IF m.frozen
    THEN [abort |-> TRUE, ptr |-> 0, map |-> m]
    ELSE LET a == Len(m.entries) + 1
         IN  [abort |-> FALSE, ptr |-> a,
              map |-> [m EXCEPT !.entries =
                       Append(@, [addr |-> a, key |-> key, value |-> "NULL"])]]

map_get(m, key) ==
    IF m.frozen
    THEN [abort |-> TRUE, ptr |-> 0, map |-> m]
    ELSE LET i == MapFind(m, key)
         IN  IF i # 0
             THEN [abort |-> FALSE, ptr |-> m.entries[i].addr, map |-> m]
             ELSE LET a == Len(m.entries) + 1
                  IN  [abort |-> FALSE, ptr |-> a,
                       map |-> [m EXCEPT !.entries =
                                Append(@, [addr |-> a, key |-> key, value |-> "NULL"])]]

\* A faulty variant: main forgets to freeze the map.
freeze_forgotten(m) == m

\* map.frozen = true
freeze(m) == [m EXCEPT !.frozen = TRUE]

\* What the clients of the map store through the pointers they hold.
Values == {"a", "b"}

NoGet == [key |-> 0, frozen |-> FALSE, found |-> FALSE, size |-> 0, res |-> "none", ptr |-> 0]

\* ------------------------------------------------------- the separate state

\* A faulty variant: sepstate_maybe_init without the test of sepstate.L.
sepstate_maybe_init_again(s) ==
    [s EXCEPT !.L = "live", !.top = 1, !.L_mtx = "live", !.ninit = @ + 1]

sepstate_maybe_init(s) ==
    IF s.L # "NULL"
    THEN s
    ELSE [s EXCEPT !.L = "live", !.top = 1, !.L_mtx = "live", !.ninit = @ + 1]

\* ------------------------------------------------------------ widget_init

\* The memory LS_XNEW returns for the array: every field undefined.  top is
\* the depth of the stack of L; pinned records the registry in which luaL_ref
\* pinned the event handle ("own": L's, "sep": sepstate.L's).  The last two
\* fields are history: the calls the host has made to give the widget up, in
\* order (the plugin's destroy() wherever it is called; plugin_unload and
\* lua_close as widget_destroy calls them), and the number of times the plugin
\* has freed its private data.  filename is the position in the list of
\* widget files of the name copied into the widget, -1 when it has none.
UndefWidget ==
    [L |-> "undef", top |-> 0, L_mtx |-> "undef", plugin |-> "undef",
     lref_cb |-> "undef", lref_event |-> "undef", sepstate_event |-> "undef",
     pinned |-> "nowhere",
     calls |-> <<>>, nfree |-> 0, filename |-> -1]

\* plugin_load, as widget_init_inspect_plugin sees it: the handle stays open
\* only on success.
widget_init_inspect_plugin(w, f) ==
    IF f.fail = "plugin_type" THEN [ok |-> FALSE, w |-> w]
    ELSE IF f.fail = "plugin_load" THEN [ok |-> FALSE, w |-> [w EXCEPT !.plugin = "unloaded"]]
    ELSE [ok |-> TRUE, w |-> [w EXCEPT !.plugin = "loaded"]]

widget_init_inspect_cb(w, f) ==
    IF f.fail = "cb" THEN [ok |-> FALSE, w |-> w]
    ELSE [ok |-> TRUE, w |-> [w EXCEPT !.lref_cb = "ref"]]

\* The event field: nil and functions are pinned in the widget's own state,
\* a string is compiled and pinned in the separate state.
widget_init_inspect_event(w, f, s) ==
    CASE f.event = "nil" ->
            [ok |-> TRUE, s |-> s,
             w |-> [w EXCEPT !.lref_event = "refnil", !.sepstate_event = FALSE]]
      [] f.event = "function" ->
            [ok |-> TRUE, s |-> s,
             w |-> [w EXCEPT !.lref_event = "ref", !.sepstate_event = FALSE,
                             !.pinned = "own"]]
      [] f.event = "string" ->
            [ok |-> TRUE,
             s |-> [sepstate_maybe_init(s) EXCEPT !.nrefs = @ + 1],
             w |-> [w EXCEPT !.lref_event = "ref", !.sepstate_event = TRUE,
                             !.pinned = "sep"]]
      [] f.event = "badstring" ->
            [ok |-> FALSE, s |-> sepstate_maybe_init(s), w |-> w]
      [] OTHER ->
            [ok |-> FALSE, s |-> s, w |-> w]

\* A faulty variant: the error: label calls the plugin's destroy() before it
\* unloads the plugin.
widget_init_error_destroying(w, plugin_loaded) ==
    [w EXCEPT !.L = "closed", !.top = 0, !.L_mtx = "destroyed", !.filename = -1,
              !.plugin = IF plugin_loaded THEN "unloaded" ELSE @,
              !.calls = IF plugin_loaded THEN Append(@, "destroy") ELSE @,
              !.nfree = IF plugin_loaded THEN @ + 1 ELSE @]

\* The error: label of widget_init.
widget_init_error(w, plugin_loaded) ==
    [w EXCEPT !.L = "closed", !.top = 0, !.L_mtx = "destroyed", !.filename = -1,
              !.plugin = IF plugin_loaded THEN "unloaded" ELSE @]

\* The plugin's init() fails: as udev's init does, it frees what it had
\* allocated (its error: label calls its own destroy) and returns
\* LUASTATUS_ERR.
plugin_init_failed(w) == [w EXCEPT !.nfree = @ + 1]

\* widget_init(w, filename): the steps in the order of the code; the first
\* failing one jumps to error:, which closes the state, destroys the mutex
\* and unloads the plugin if it had been loaded.
widget_init(w0, filename, f, s0) ==
    LET w1 == [w0 EXCEPT !.L = "live", !.L_mtx = "live", !.top = 1,
                         !.filename = filename]
        fail(w, ld, s) == [ok |-> FALSE, w |-> widget_init_error(w, ld), sep |-> s]
    IN  IF f.fail \in {"loadfile", "run", "table"} THEN fail(w1, FALSE, s0)
        ELSE LET p == widget_init_inspect_plugin(w1, f)
        IN  IF ~p.ok THEN fail(p.w, FALSE, s0)
        ELSE LET c == widget_init_inspect_cb(p.w, f)
        IN  IF ~c.ok THEN fail(c.w, TRUE, s0)
        ELSE LET e == widget_init_inspect_event(c.w, f, s0)
        IN  IF ~e.ok THEN fail(e.w, TRUE, e.s)
        ELSE IF f.fail = "opts" THEN fail(e.w, TRUE, e.s)
        ELSE IF f.fail = "init" THEN fail(plugin_init_failed(e.w), TRUE, e.s)
        ELSE [ok |-> TRUE, w |-> e.w, sep |-> e.s]

\* Two faulty variants of widget_init_stillborn: one marks the event handle
\* as the widget's own, the other leaves lref_event as widget_init left it.
widget_init_stillborn_own_event(w) ==
    [w EXCEPT !.L = "NULL", !.lref_event = "refnil", !.sepstate_event = FALSE]

widget_init_stillborn_keeps_event(w) ==
    [w EXCEPT !.L = "NULL", !.sepstate_event = TRUE]

widget_init_stillborn(w) ==
    [w EXCEPT !.L = "NULL", !.lref_event = "refnil", !.sepstate_event = TRUE]

widget_is_stillborn(w) == w.L = "NULL"

\* A faulty variant: positions counted from one.
widget_index_from_one(w) == w + 1

\* widget_index(w): w - widgets.  A pointer to an element of the array is the
\* element's position.
widget_index(w) == w

\* ------------------------------------------------------------------ locks

Holds(t, l) == \E k \in 1 .. Len(held[t]) : held[t][k] = l

Free(l) == \A t \in Threads : ~Holds(t, l)

\* pthread_mutex_lock, once it returns, and pthread_mutex_unlock.
Lock(h, t, l) == [h EXCEPT ![t] = Append(@, l)]
Unlock(h, t, l) == [h EXCEPT ![t] = SelectSeq(@, LAMBDA x : x # l)]

\* ------------------------------------------------------- scripting contexts

\* A context is named by the mutex that guards it: i for widgets[i].L,
\* SepLock for sepstate.L.
widget_event_lua_state(i) == IF widgets[i].sepstate_event = TRUE THEN SepLock ELSE i
\* A faulty variant: the mutex of the separate state for every widget.
widget_event_L_mtx_always_sep(i) == SepLock

widget_event_L_mtx(i) == IF widgets[i].sepstate_event = TRUE THEN SepLock ELSE i

Top(c) == IF c = SepLock THEN sepstate.top ELSE widgets[c].top

SetTop(c, n) ==
    IF c = SepLock
    THEN sepstate' = [sepstate EXCEPT !.top = n] /\ UNCHANGED widgets
    ELSE widgets' = [widgets EXCEPT ![c].top = n] /\ UNCHANGED sepstate

\* ------------------------------------------------- the loader's record

\* Versions of the scripting engine a module or the host may be built against.
NVersions == 2
Versions == 1 .. NVersions

\* What a shared object file offers: whether dlopen succeeds, whether each
\* symbol is found, the value of the version symbol, and (barlib only) the
\* result of its init().
ModuleFiles ==
    [opens : BOOLEAN, has_version : BOOLEAN, version : Versions, has_iface : BOOLEAN,
     init_ok : BOOLEAN]

NoFile ==
    [opens |-> FALSE, has_version |-> FALSE, version |-> 1, has_iface |-> FALSE,
     init_ok |-> FALSE]

\* No load in progress.  steps: what the loader has done so far, in order;
\* ncalls: calls of functions of the module's interface; nopen, nclose: the
\* dlopen calls that succeeded and the dlclose calls.
NoLoad ==
    [pc |-> "none", kind |-> "none", file |-> NoFile, host |-> 1, dlhandle |-> "NULL",
     steps |-> <<>>, ncalls |-> 0, nopen |-> 0, nclose |-> 0, ret |-> "none"]

\* ------------------------------------------- the registry of Lua plugins

\* Two of the Lua states: the first widget's and the separate state.
\* inject_libs gives each state its own luastatus.require_plugin with its own
\* registry table.
Contexts == {0, SepLock}

\* What LUASTATUS_PLUGINS_DIR/<name>.lua does when loaded and called: its
\* chunk returns nil (or nothing), false, or a new table; raises an error; or
\* the file cannot be loaded.  The last name is refused for its slash.
PluginsDir ==
    [n \in {"a", "b", "c", "d", "e", "x/y"} |->
        CASE n = "a" -> "nil"
          [] n = "b" -> "false"
          [] n = "c" -> "table"
          [] n = "d" -> "error"
          [] OTHER -> "missing"]

PluginNames == DOMAIN PluginsDir

\* A Lua value: nil, false, or the table made by the id-th execution of a
\* chunk; "error" stands for a call that raised an error instead of returning.
LuaNil == [k |-> "nil", id |-> 0]
LuaError == [k |-> "error", id |-> 0]

\* Per state and name: the registry's field (memo), the number of
\* luastatus.require_plugin calls (ncall), the number of executions of the
\* file's chunk (nexec), and what the first and the latest call returned.
NoRequire == [memo |-> LuaNil, ncall |-> 0, nexec |-> 0, first |-> LuaNil, latest |-> LuaNil]

\* ------------------------------------------------- the locking protocol

\* The mutexes and the threads alone: main is at the position pc of its
\* startup and event watcher, with spawn index mi and the widget j of the
\* watcher's call; kind is what widgets_init made of each widget so far; th is
\* the position of each thread created so far; owner is the thread that holds
\* each mutex that is locked.
NoLocks ==
    [pc |-> "widgets_init", mi |-> 0, j |-> 0,
     kind |-> [i \in {} |-> "own"], th |-> [i \in {} |-> "run"],
     owner |-> [l \in {} |-> 0]]

\* ------------------------------------------------------- the udev plugin

\* Before init(): no Priv yet.
NoUdev == [pc |-> "init"]

\* struct timespec values, in seconds; ls_timespec_invalid is the value no
\* number of seconds converts to.
ls_timespec_invalid == -1
ls_timespec_is_invalid(ts) == ts < 0
ls_timespec_from_seconds(n) ==
    IF n < 0 \/ n > MaxSeconds THEN ls_timespec_invalid ELSE n

\* The numbers Lua code passes as a timeout.
Seconds == -1 .. (MaxSeconds + 1)

\* The properties report_event asks the device for.
Props == {"syspath", "sysname", "sysnum", "devpath", "devnode", "devtype",
          "subsystem", "driver", "action"}

\* ------------------------------------------------------ parse_int's record

\* No call yet.
NoParse == [called |-> FALSE, s |-> <<>>, ns |-> 0, ret |-> 0, retz |-> 0]

\* ------------------------------------------------------------------- Init

\* A widget thread: pc, and for the bridge call in flight the result r of the
\* callback, the numbers of set() and set_error() calls made so far, what
\* set() returned ("none" until it has), and the index handed to set() and
\* set_error() (-1 until one is called).
NoCall == [pc |-> "none", r |-> FALSE, nset |-> 0, nerr |-> 0, res |-> "none", idx |-> -1]
InRun == [NoCall EXCEPT !.pc = "run"]

\* The event watcher: pc, and for its last call (in flight, or over: last says
\* how it ended) the widget index, whether the handle was called and the
\* numbers of set() and set_error() calls made.
NoEvent ==
    [pc |-> "none", idx |-> 0, ran |-> FALSE, nset |-> 0, nerr |-> 0, last |-> "none"]

Init ==
    /\ status = "running"
    /\ pc = "widgets_init"
    /\ mi = 0
    /\ widgets = [i \in Widgets |-> UndefWidget]
    /\ sepstate = [L |-> "NULL", top |-> 0, L_mtx |-> "undef", nrefs |-> 0, ninit |-> 0]
    /\ barlib = [inited |-> FALSE, dlhandle |-> "NULL", set_mtx |-> "undef"]
    /\ map = [entries |-> <<>>, frozen |-> FALSE]
    /\ held = [t \in Threads |-> <<>>]
    /\ th = [i \in Widgets |-> NoCall]
    /\ ew = NoEvent
    /\ eflag = "unread"
    /\ ret = "EXIT_FAILURE"
    /\ lateGet = FALSE
    /\ got = [k \in Keys |-> 0]
    /\ lastget = NoGet
    /\ boot = [i \in Widgets |-> [nerr |-> 0, nthr |-> 0]]
    /\ loader = NoLoad
    /\ req = [p \in {} |-> NoRequire]
    /\ parse = NoParse
    /\ lk = NoLocks
    /\ udev = NoUdev

Spawned == {i \in Widgets : th[i].pc # "none"}

\* The process ends at once, from whatever thread: abort(), or _exit() in
\* fatal_error_reported.  Its threads are gone; what they held stays as it was.
Exit(how) ==
    /\ status' = how
    /\ pc' = "gone"
    /\ th' = [i \in Widgets |-> [NoCall EXCEPT !.pc = "gone"]]
    /\ ew' = [NoEvent EXCEPT !.pc = "gone"]

abort == Exit("abort")
fatal_error_reported == Exit("exit_failure")

\* ------------------------------------------------------------ main: startup

\* The key a plugin's init() passes to map_get (0: it does not call it).
PluginKeys == {0, 1}

\* A faulty variant: widgets_init gives up on the first widget that fails.
WidgetsInitStep_giving_up ==
    /\ status = "running"
    /\ pc = "widgets_init"
    /\ mi < NWidgets
    /\ \E f \in Files :
         LET r == widget_init(widgets[mi], mi, f, sepstate)
         IN  IF r.ok
             THEN /\ widgets' = [widgets EXCEPT ![mi] = r.w]
                  /\ sepstate' = r.sep
                  /\ mi' = mi + 1
                  /\ UNCHANGED <<status, pc, th, ew>>
             ELSE /\ widgets' = [widgets EXCEPT ![mi] = widget_init_stillborn(r.w)]
                  /\ sepstate' = sepstate_maybe_init(r.sep)
                  /\ fatal_error_reported
                  /\ UNCHANGED mi
    /\ UNCHANGED <<barlib, map, held, eflag, ret, lateGet, got, lastget, boot, loader, req, parse, lk, udev>>

\* One iteration of the loop of widgets_init.  The plugin's init(), when the
\* file gets that far, may call map_get.
WidgetsInitStep ==
    /\ status = "running"
    /\ pc = "widgets_init"
    /\ mi < NWidgets
    /\ \E f \in Files, pk \in PluginKeys :
         LET r == widget_init(widgets[mi], mi, f, sepstate)
             called == f.fail \in {"init", "none"} /\ pk # 0
             g == IF called THEN map_get(map, pk)
                  ELSE [abort |-> FALSE, ptr |-> 0, map |-> map]
         IN  /\ map' = g.map
             /\ lateGet' = (lateGet \/ (called /\ ~g.abort /\ Spawned # {}))
             /\ IF g.abort
                THEN abort /\ UNCHANGED <<widgets, sepstate, mi>>
                ELSE /\ UNCHANGED <<status, pc, th, ew>>
                     /\ mi' = mi + 1
                     /\ IF r.ok
                        THEN /\ widgets' = [widgets EXCEPT ![mi] = r.w]
                             /\ sepstate' = r.sep
                        ELSE /\ widgets' = [widgets EXCEPT ![mi] = widget_init_stillborn(r.w)]
                             /\ sepstate' = sepstate_maybe_init(r.sep)
    /\ UNCHANGED <<barlib, held, eflag, ret, got, lastget, boot, loader, req, parse, lk, udev>>

\* barlib_init: what the loader finds, in the order it looks.
BarlibOutcomes == {"dlopen", "no_version", "version_mismatch", "no_iface", "init_err", "ok"}

barlib_init(b, out) ==
    CASE out = "dlopen" -> [ok |-> FALSE, b |-> [b EXCEPT !.dlhandle = "NULL"]]
      [] out \in {"no_version", "version_mismatch", "no_iface", "init_err"} ->
            [ok |-> FALSE, b |-> [b EXCEPT !.dlhandle = "closed"]]
      [] OTHER ->
            [ok |-> TRUE, b |-> [b EXCEPT !.dlhandle = "open", !.set_mtx = "live"]]

\* The key the barlib's init() passes to map_get.
BarlibKeys == {1}

\* main: barlib_init_by_name; barlib_inited = true.
MainBarlibInit ==
    /\ status = "running"
    /\ pc = "widgets_init"
    /\ mi = NWidgets
    /\ \E out \in BarlibOutcomes, bk \in BarlibKeys :
         LET called == out \in {"init_err", "ok"}
             g == IF called THEN map_get(map, bk)
                  ELSE [abort |-> FALSE, ptr |-> 0, map |-> map]
             r == barlib_init(barlib, out)
         IN  /\ map' = g.map
             /\ lateGet' = (lateGet \/ (called /\ ~g.abort /\ Spawned # {}))
             /\ IF g.abort
                THEN abort /\ UNCHANGED barlib
                ELSE /\ UNCHANGED <<status, th, ew>>
                     /\ IF r.ok
                        THEN /\ barlib' = [r.b EXCEPT !.inited = TRUE]
                             /\ pc' = "freeze"
                        ELSE /\ barlib' = r.b
                             /\ pc' = "cleanup"
    /\ UNCHANGED <<mi, widgets, sepstate, held, eflag, ret, got, lastget, boot, loader, req, parse, lk, udev>>

\* main: map.frozen = true.
MainFreeze ==
    /\ status = "running"
    /\ pc = "freeze"
    /\ map' = freeze(map)
    /\ pc' = "sepstate_register"
    /\ UNCHANGED <<status, mi, widgets, sepstate, barlib, held, th, ew, eflag, ret,
                   lateGet, got, lastget, boot, loader, req, parse, lk, udev>>

\* main: if (sepstate.L) register_funcs(sepstate.L, NULL); the stack is left
\* as found.
MainSepstateRegister ==
    /\ status = "running"
    /\ pc = "sepstate_register"
    /\ pc' = "spawn"
    /\ mi' = 0
    /\ UNCHANGED <<status, widgets, sepstate, barlib, map, held, th, ew, eflag, ret,
                   lateGet, got, lastget, boot, loader, req, parse, lk, udev>>

\* The spawn loop, a stillborn widget: LOCK_B() returns, set_error() is called.
SpawnLockB ==
    /\ status = "running"
    /\ pc = "spawn"
    /\ mi < NWidgets
    /\ widget_is_stillborn(widgets[mi])
    /\ Free(BarLock)
    /\ held' = Lock(held, MainT, BarLock)
    /\ pc' = "spawn_set_error"
    /\ boot' = [boot EXCEPT ![mi].nerr = @ + 1]
    /\ UNCHANGED <<status, mi, widgets, sepstate, barlib, map, th, ew, eflag, ret,
                   lateGet, got, lastget, loader, req, parse, lk, udev>>

\* A faulty variant: the spawn loop does not move on after set_error().
SpawnSetErrorReturn_same_index ==
    /\ status = "running"
    /\ pc = "spawn_set_error"
    /\ \E res \in {"OK", "ERR"} :
         IF res = "ERR"
         THEN fatal_error_reported /\ UNCHANGED <<mi, held>>
         ELSE /\ held' = Unlock(held, MainT, BarLock)
              /\ mi' = mi
              /\ pc' = "spawn"
              /\ UNCHANGED <<status, th, ew>>
    /\ UNCHANGED <<widgets, sepstate, barlib, map, eflag, ret, lateGet, got, lastget, boot, loader, req, parse, lk, udev>>

\* set_error() returns to set_error_unlocked; UNLOCK_B.
SpawnSetErrorReturn ==
    /\ status = "running"
    /\ pc = "spawn_set_error"
    /\ \E res \in {"OK", "ERR"} :
         IF res = "ERR"
         THEN fatal_error_reported /\ UNCHANGED <<mi, held>>
         ELSE /\ held' = Unlock(held, MainT, BarLock)
              /\ mi' = mi + 1
              /\ pc' = "spawn"
              /\ UNCHANGED <<status, th, ew>>
    /\ UNCHANGED <<widgets, sepstate, barlib, map, eflag, ret, lateGet, got, lastget, boot, loader, req, parse, lk, udev>>

\* The spawn loop, a normal widget: register_funcs(w->L, w) is entered
\* (lua_getglobal pushes the luastatus table) ...
SpawnRegisterFuncs ==
    /\ status = "running"
    /\ pc = "spawn"
    /\ mi < NWidgets
    /\ ~widget_is_stillborn(widgets[mi])
    /\ widgets' = [widgets EXCEPT ![mi].top = @ + 1]
    /\ pc' = "register_funcs"
    /\ UNCHANGED <<status, mi, sepstate, barlib, map, held, th, ew, eflag, ret,
                   lateGet, got, lastget, boot, loader, req, parse, lk, udev>>

\* ... and returns (lua_pop); pthread_create.
SpawnThread ==
    /\ status = "running"
    /\ pc = "register_funcs"
    /\ widgets' = [widgets EXCEPT ![mi].top = @ - 1]
    /\ th' = [th EXCEPT ![mi] = InRun]
    /\ mi' = mi + 1
    /\ pc' = "spawn"
    /\ boot' = [boot EXCEPT ![mi].nthr = @ + 1]
    /\ UNCHANGED <<status, sepstate, barlib, map, held, ew, eflag, ret, lateGet, got, lastget, loader, req, parse, lk, udev>>

\* After the loop: the event watcher, if the barlib's interface has one.
MainStartWatcher ==
    /\ status = "running"
    /\ pc = "spawn"
    /\ mi = NWidgets
    /\ \E has_ew \in BOOLEAN :
         IF has_ew
         THEN pc' = "event_watcher" /\ ew' = [NoEvent EXCEPT !.pc = "idle"]
         ELSE pc' = "join" /\ UNCHANGED ew
    /\ UNCHANGED <<status, mi, widgets, sepstate, barlib, map, held, th, eflag, ret,
                   lateGet, got, lastget, boot, loader, req, parse, lk, udev>>

\* --------------------------------------------- the bridge, widget threads

\* plugin_call_begin: LOCK_L() returns; assert(lua_gettop(L) == 1); the cb is
\* pushed.
plugin_call_begin(i) ==
    /\ status = "running"
    /\ th[i].pc = "run"
    /\ Free(i)
    /\ held' = Lock(held, i, i)
    /\ IF Top(i) = 1
       THEN /\ widgets' = [widgets EXCEPT ![i].top = 2]
            /\ th' = [th EXCEPT ![i].pc = "begun"]
            /\ UNCHANGED <<status, pc, ew>>
       ELSE abort /\ UNCHANGED widgets
    /\ UNCHANGED <<mi, sepstate, barlib, map, eflag, ret, lateGet, got, lastget, boot, loader, req, parse, lk, udev>>

\* The plugin pushes one argument and calls plugin_call_end, which runs the
\* cb (do_lua_call(L, 1, 1): one result, or the error popped by
\* check_lua_call) and then waits for barlib.set_mtx.
plugin_call_end_call(i) ==
    /\ status = "running"
    /\ th[i].pc = "begun"
    /\ IF Top(i) + 1 = 3
       THEN \E r \in BOOLEAN :
              /\ widgets' = [widgets EXCEPT ![i].top = IF r THEN 2 ELSE 1]
              /\ th' = [th EXCEPT ![i].pc = "end_lock", ![i].r = r]
              /\ UNCHANGED <<status, pc, ew>>
       ELSE abort /\ UNCHANGED widgets
    /\ UNCHANGED <<mi, sepstate, barlib, map, held, eflag, ret, lateGet, got, lastget, boot, loader, req, parse, lk, udev>>

\* A faulty variant: a cb that failed is not reported; plugin_call_end just
\* unlocks.
plugin_call_end_lock_silent(i) ==
    /\ status = "running"
    /\ th[i].pc = "end_lock"
    /\ IF th[i].r
       THEN /\ Free(BarLock)
            /\ held' = Lock(held, i, BarLock)
            /\ th' = [th EXCEPT ![i].pc = "in_set", ![i].nset = @ + 1,
                                 ![i].idx = widget_index(i)]
       ELSE /\ held' = Unlock(held, i, i)
            /\ th' = [th EXCEPT ![i] = InRun]
    /\ UNCHANGED <<status, pc, mi, widgets, sepstate, barlib, map, ew, eflag, ret,
                   lateGet, got, lastget, boot, loader, req, parse, lk, udev>>

\* LOCK_B() returns: set() is called if the cb succeeded, set_error() if not.
plugin_call_end_lock(i) ==
    /\ status = "running"
    /\ th[i].pc = "end_lock"
    /\ Free(BarLock)
    /\ held' = Lock(held, i, BarLock)
    /\ th' = [th EXCEPT ![i].pc = IF th[i].r THEN "in_set" ELSE "in_set_error",
                        ![i].nset = IF th[i].r THEN @ + 1 ELSE @,
                        ![i].nerr = IF th[i].r THEN @ ELSE @ + 1,
                        ![i].idx = widget_index(i)]
    /\ UNCHANGED <<status, pc, mi, widgets, sepstate, barlib, map, ew, eflag, ret,
                   lateGet, got, lastget, boot, loader, req, parse, lk, udev>>

\* The rest of plugin_call_end once the barlib is done: lua_settop(L, 1) on
\* the success branch, UNLOCK_B, UNLOCK_L; back in run().
plugin_call_end_finish(i) ==
    /\ widgets' = [widgets EXCEPT ![i].top = IF th[i].r THEN 1 ELSE @]
    /\ held' = Unlock(Unlock(held, i, BarLock), i, i)
    /\ th' = [th EXCEPT ![i] = InRun]
    /\ UNCHANGED <<status, pc, ew>>

\* A faulty variant: the switch on set() falls into set_error_unlocked
\* whatever set() returned, short of the fatal result.
plugin_set_return_always_error(i) ==
    /\ status = "running"
    /\ th[i].pc = "in_set"
    /\ \E res \in {"OK", "NONFATAL_ERR", "ERR"} :
         IF res = "ERR"
         THEN fatal_error_reported /\ UNCHANGED <<widgets, held>>
         ELSE /\ th' = [th EXCEPT ![i].pc = "in_set_error", ![i].nerr = @ + 1,
                                  ![i].res = res]
              /\ UNCHANGED <<status, pc, ew, widgets, held>>
    /\ UNCHANGED <<mi, sepstate, barlib, map, eflag, ret, lateGet, got, lastget, boot, loader, req, parse, lk, udev>>

\* set() returns.
\* A faulty variant: on a fatal result the mutexes are released before the
\* process ends.
plugin_set_return_fatal_unlocks(i) ==
    /\ status = "running"
    /\ th[i].pc = "in_set"
    /\ \E res \in {"OK", "NONFATAL_ERR", "ERR"} :
         CASE res = "OK" -> plugin_call_end_finish(i)
           [] res = "NONFATAL_ERR" ->
                /\ th' = [th EXCEPT ![i].pc = "in_set_error", ![i].nerr = @ + 1,
                                    ![i].res = res]
                /\ UNCHANGED <<status, pc, ew, widgets, held>>
           [] OTHER ->
                /\ fatal_error_reported
                /\ held' = Unlock(Unlock(held, i, BarLock), i, i)
                /\ UNCHANGED widgets
    /\ UNCHANGED <<mi, sepstate, barlib, map, eflag, ret, lateGet, got, lastget, boot, loader, req, parse, lk, udev>>

plugin_set_return(i) ==
    /\ status = "running"
    /\ th[i].pc = "in_set"
    /\ \E res \in {"OK", "NONFATAL_ERR", "ERR"} :
         CASE res = "OK" -> plugin_call_end_finish(i)
           [] res = "NONFATAL_ERR" ->
                /\ th' = [th EXCEPT ![i].pc = "in_set_error", ![i].nerr = @ + 1,
                                    ![i].res = res]
                /\ UNCHANGED <<status, pc, ew, widgets, held>>
           [] OTHER ->
                fatal_error_reported /\ UNCHANGED <<widgets, held>>
    /\ UNCHANGED <<mi, sepstate, barlib, map, eflag, ret, lateGet, got, lastget, boot, loader, req, parse, lk, udev>>

\* set_error() returns to set_error_unlocked.
plugin_set_error_return(i) ==
    /\ status = "running"
    /\ th[i].pc = "in_set_error"
    /\ \E res \in {"OK", "ERR"} :
         IF res = "ERR"
         THEN fatal_error_reported /\ UNCHANGED <<widgets, held>>
         ELSE plugin_call_end_finish(i)
    /\ UNCHANGED <<mi, sepstate, barlib, map, eflag, ret, lateGet, got, lastget, boot,
                   loader, req, parse, lk, udev>>

\* A faulty variant: plugin_call_cancel without lua_settop.
plugin_call_cancel_no_settop(i) ==
    /\ status = "running"
    /\ th[i].pc = "begun"
    /\ held' = Unlock(held, i, i)
    /\ th' = [th EXCEPT ![i] = InRun]
    /\ UNCHANGED <<status, pc, mi, widgets, sepstate, barlib, map, ew, eflag, ret, lateGet,
                   got, lastget, boot, loader, req, parse, lk, udev>>

\* plugin_call_cancel: lua_settop(w->L, 1); UNLOCK_L.
plugin_call_cancel(i) ==
    /\ status = "running"
    /\ th[i].pc = "begun"
    /\ widgets' = [widgets EXCEPT ![i].top = 1]
    /\ held' = Unlock(held, i, i)
    /\ th' = [th EXCEPT ![i] = InRun]
    /\ UNCHANGED <<status, pc, mi, sepstate, barlib, map, ew, eflag, ret, lateGet, got,
                   lastget, boot, loader, req, parse, lk, udev>>

\* A faulty variant: widget_thread calls set_error() without LOCK_B.
widget_thread_lock_unlocked(i) ==
    /\ status = "running"
    /\ th[i].pc = "run"
    /\ th' = [th EXCEPT ![i].pc = "thread_set_error", ![i].nerr = @ + 1,
                        ![i].idx = widget_index(i)]
    /\ UNCHANGED <<status, pc, mi, widgets, sepstate, barlib, map, held, ew, eflag, ret,
                   lateGet, got, lastget, boot, loader, req, parse, lk, udev>>

\* widget_thread: the plugin's run() has returned, LOCK_B() returns and
\* set_error() is called ...
widget_thread_lock(i) ==
    /\ status = "running"
    /\ th[i].pc = "run"
    /\ Free(BarLock)
    /\ held' = Lock(held, i, BarLock)
    /\ th' = [th EXCEPT ![i].pc = "thread_set_error", ![i].nerr = @ + 1,
                        ![i].idx = widget_index(i)]
    /\ UNCHANGED <<status, pc, mi, widgets, sepstate, barlib, map, ew, eflag, ret,
                   lateGet, got, lastget, boot, loader, req, parse, lk, udev>>

\* A faulty variant: the thread calls run() again after set_error().
widget_thread_exit_restarts(i) ==
    /\ status = "running"
    /\ th[i].pc = "thread_set_error"
    /\ \E res \in {"OK", "ERR"} :
         IF res = "ERR"
         THEN fatal_error_reported /\ UNCHANGED held
         ELSE /\ held' = Unlock(held, i, BarLock)
              /\ th' = [th EXCEPT ![i] = InRun]
              /\ UNCHANGED <<status, pc, ew>>
    /\ UNCHANGED <<mi, widgets, sepstate, barlib, map, eflag, ret, lateGet, got, lastget, boot, loader, req, parse, lk, udev>>

\* ... set_error() returns; UNLOCK_B; the thread ends.
widget_thread_exit(i) ==
    /\ status = "running"
    /\ th[i].pc = "thread_set_error"
    /\ \E res \in {"OK", "ERR"} :
         IF res = "ERR"
         THEN fatal_error_reported /\ UNCHANGED held
         ELSE /\ held' = Unlock(held, i, BarLock)
              /\ th' = [th EXCEPT ![i] = [NoCall EXCEPT !.pc = "exited"]]
              /\ UNCHANGED <<status, pc, ew>>
    /\ UNCHANGED <<mi, widgets, sepstate, barlib, map, eflag, ret, lateGet, got, lastget, boot, loader, req, parse, lk, udev>>

\* ------------------------------------------ the bridge, the event watcher

\* A faulty variant: ew_call_begin takes barlib.set_mtx before the mutex of
\* the event's state.
ew_call_begin_bar_first(j) ==
    /\ status = "running"
    /\ pc = "event_watcher"
    /\ ew.pc = "idle"
    /\ Free(BarLock)
    /\ Free(widget_event_L_mtx(j))
    /\ held' = Lock(Lock(held, MainT, BarLock), MainT, widget_event_L_mtx(j))
    /\ IF Top(widget_event_lua_state(j)) = 1
       THEN /\ SetTop(widget_event_lua_state(j), 2)
            /\ ew' = [NoEvent EXCEPT !.pc = "begun", !.idx = j]
            /\ UNCHANGED <<status, pc, th>>
       ELSE abort /\ UNCHANGED <<widgets, sepstate>>
    /\ UNCHANGED <<mi, barlib, map, eflag, ret, lateGet, got, lastget, boot, loader, req, parse, lk, udev>>

\* ew_call_begin: LOCK_E() returns; assert(lua_gettop(L) == 1); the event
\* handle is pushed.
ew_call_begin(j) ==
    /\ status = "running"
    /\ pc = "event_watcher"
    /\ ew.pc = "idle"
    /\ Free(widget_event_L_mtx(j))
    /\ held' = Lock(held, MainT, widget_event_L_mtx(j))
    /\ IF Top(widget_event_lua_state(j)) = 1
       THEN /\ SetTop(widget_event_lua_state(j), 2)
            /\ ew' = [NoEvent EXCEPT !.pc = "begun", !.idx = j]
            /\ UNCHANGED <<status, pc, th>>
       ELSE abort /\ UNCHANGED <<widgets, sepstate>>
    /\ UNCHANGED <<mi, barlib, map, eflag, ret, lateGet, got, lastget, boot, loader, req, parse, lk, udev>>

\* A faulty variant: ew_call_end hands the result of an event callback that
\* succeeded to set().
ew_call_end_call_forwarding ==
    /\ status = "running"
    /\ pc = "event_watcher"
    /\ ew.pc = "begun"
    /\ LET j == ew.idx
           L == widget_event_lua_state(j)
       IN  IF Top(L) + 1 # 3
           THEN abort /\ UNCHANGED <<widgets, sepstate, held>>
           ELSE /\ UNCHANGED <<status, pc, th>>
                /\ SetTop(L, 1)
                /\ IF widgets[j].lref_event = "refnil"
                   THEN /\ ew' = [ew EXCEPT !.pc = "idle", !.last = "end"]
                        /\ held' = Unlock(held, MainT, widget_event_L_mtx(j))
                   ELSE \E r \in BOOLEAN :
                          IF r
                          THEN /\ ew' = [ew EXCEPT !.pc = "idle", !.last = "end",
                                                   !.ran = TRUE, !.nset = @ + 1]
                               /\ held' = Unlock(held, MainT, widget_event_L_mtx(j))
                          ELSE /\ ew' = [ew EXCEPT !.pc = "end_lock", !.ran = TRUE]
                               /\ UNCHANGED held
    /\ UNCHANGED <<mi, barlib, map, eflag, ret, lateGet, got, lastget, boot, loader, req, parse, lk, udev>>

\* The watcher pushes one argument and calls ew_call_end: a nil handle has
\* the two values popped; otherwise do_lua_call(L, 1, 0), and on failure the
\* watcher waits for barlib.set_mtx.  On the other paths, UNLOCK_E.
ew_call_end_call ==
    /\ status = "running"
    /\ pc = "event_watcher"
    /\ ew.pc = "begun"
    /\ LET j == ew.idx
           L == widget_event_lua_state(j)
       IN  IF Top(L) + 1 # 3
           THEN abort /\ UNCHANGED <<widgets, sepstate, held>>
           ELSE /\ UNCHANGED <<status, pc, th>>
                /\ SetTop(L, 1)
                /\ IF widgets[j].lref_event = "refnil"
                   THEN /\ ew' = [ew EXCEPT !.pc = "idle", !.last = "end"]
                        /\ held' = Unlock(held, MainT, widget_event_L_mtx(j))
                   ELSE \E r \in BOOLEAN :
                          IF r
                          THEN /\ ew' = [ew EXCEPT !.pc = "idle", !.last = "end",
                                                   !.ran = TRUE]
                               /\ held' = Unlock(held, MainT, widget_event_L_mtx(j))
                          ELSE /\ ew' = [ew EXCEPT !.pc = "end_lock", !.ran = TRUE]
                               /\ UNCHANGED held
    /\ UNCHANGED <<mi, barlib, map, eflag, ret, lateGet, got, lastget, boot, loader, req, parse, lk, udev>>

\* LOCK_B() returns and set_error() is called.
ew_call_end_lock ==
    /\ status = "running"
    /\ pc = "event_watcher"
    /\ ew.pc = "end_lock"
    /\ Free(BarLock)
    /\ held' = Lock(held, MainT, BarLock)
    /\ ew' = [ew EXCEPT !.pc = "in_set_error", !.nerr = @ + 1]
    /\ UNCHANGED <<status, pc, mi, widgets, sepstate, barlib, map, th, eflag, ret,
                   lateGet, got, lastget, boot, loader, req, parse, lk, udev>>

\* set_error() returns; UNLOCK_B; UNLOCK_E.
ew_set_error_return ==
    /\ status = "running"
    /\ pc = "event_watcher"
    /\ ew.pc = "in_set_error"
    /\ \E res \in {"OK", "ERR"} :
         IF res = "ERR"
         THEN fatal_error_reported /\ UNCHANGED held
         ELSE /\ held' = Unlock(Unlock(held, MainT, BarLock), MainT,
                                widget_event_L_mtx(ew.idx))
              /\ ew' = [ew EXCEPT !.pc = "idle", !.last = "end"]
              /\ UNCHANGED <<status, pc, th>>
    /\ UNCHANGED <<mi, widgets, sepstate, barlib, map, eflag, ret, lateGet, got, lastget, boot, loader, req, parse, lk, udev>>

\* A faulty variant: ew_call_cancel calls the event callback before it
\* resets the stack.
ew_call_cancel_calls_back ==
    /\ status = "running"
    /\ pc = "event_watcher"
    /\ ew.pc = "begun"
    /\ SetTop(widget_event_lua_state(ew.idx), 1)
    /\ held' = Unlock(held, MainT, widget_event_L_mtx(ew.idx))
    /\ ew' = [ew EXCEPT !.pc = "idle", !.last = "cancel",
                        !.ran = (widgets[ew.idx].lref_event = "ref")]
    /\ UNCHANGED <<status, pc, mi, barlib, map, th, eflag, ret, lateGet, got, lastget, boot, loader, req, parse, lk, udev>>

\* A faulty variant: ew_call_cancel without UNLOCK_E.
ew_call_cancel_keeps_lock ==
    /\ status = "running"
    /\ pc = "event_watcher"
    /\ ew.pc = "begun"
    /\ SetTop(widget_event_lua_state(ew.idx), 1)
    /\ ew' = [ew EXCEPT !.pc = "idle", !.last = "cancel"]
    /\ UNCHANGED <<status, pc, mi, barlib, map, held, th, eflag, ret, lateGet, got, lastget, boot, loader, req, parse, lk, udev>>

\* ew_call_cancel: lua_settop(L, 1); UNLOCK_E.
ew_call_cancel ==
    /\ status = "running"
    /\ pc = "event_watcher"
    /\ ew.pc = "begun"
    /\ SetTop(widget_event_lua_state(ew.idx), 1)
    /\ held' = Unlock(held, MainT, widget_event_L_mtx(ew.idx))
    /\ ew' = [ew EXCEPT !.pc = "idle", !.last = "cancel"]
    /\ UNCHANGED <<status, pc, mi, barlib, map, th, eflag, ret, lateGet, got, lastget, boot, loader, req, parse, lk, udev>>

\* The barlib's event_watcher() returns to main.
MainWatcherReturns ==
    /\ status = "running"
    /\ pc = "event_watcher"
    /\ ew.pc = "idle"
    /\ \E res \in {"OK", "ERR"} :
         IF res = "ERR"
         THEN fatal_error_reported
         ELSE /\ pc' = "join"
              /\ ew' = [NoEvent EXCEPT !.pc = "returned"]
              /\ UNCHANGED <<status, th>>
    /\ UNCHANGED <<mi, widgets, sepstate, barlib, map, held, eflag, ret, lateGet, got,
                   lastget, boot, loader, req, parse, lk, udev>>

\* ---------------------------------------------- map_get from module code

\* A module calls map_get after its init(), with the key it uses: the barlib
\* from its event watcher between two events, a plugin between call_begin and
\* call_end.
ModuleMapGet(t, key) ==
    /\ status = "running"
    /\ key # 0
    /\ key \in (IF t = MainT THEN BarlibKeys ELSE PluginKeys)
    /\ IF t = MainT
       THEN pc = "event_watcher" /\ ew.pc = "idle"
       ELSE th[t].pc = "begun"
    /\ LET g == map_get(map, key)
       IN  /\ map' = g.map
           /\ lateGet' = (lateGet \/ ~g.abort)
           /\ IF g.abort THEN abort ELSE UNCHANGED <<status, pc, th, ew>>
    /\ UNCHANGED <<mi, widgets, sepstate, barlib, held, eflag, ret, got, lastget, boot, loader, req, parse, lk, udev>>

\* ----------------------------------------------------- main: join and exit

\* A faulty variant: main does not wait for the widget threads.
MainJoin_without_join ==
    /\ status = "running"
    /\ pc = "join"
    /\ \E e \in BOOLEAN :
         IF e
         THEN eflag' = "set" /\ ret' = "EXIT_SUCCESS" /\ pc' = "cleanup"
         ELSE eflag' = "clear" /\ ret' = ret /\ pc' = "hang"
    /\ UNCHANGED <<status, mi, widgets, sepstate, barlib, map, held, th, ew, lateGet, got,
                   lastget, boot, loader, req, parse, lk, udev>>

\* A faulty variant: main goes on to cleanup with EXIT_SUCCESS whether or not
\* -e was passed.
MainJoin_without_flag ==
    /\ status = "running"
    /\ pc = "join"
    /\ \A i \in Widgets : th[i].pc \in {"none", "exited"}
    /\ \E e \in BOOLEAN :
         /\ eflag' = IF e THEN "set" ELSE "clear"
         /\ ret' = "EXIT_SUCCESS"
         /\ pc' = "cleanup"
    /\ UNCHANGED <<status, mi, widgets, sepstate, barlib, map, held, th, ew, lateGet, got,
                   lastget, boot, loader, req, parse, lk, udev>>

\* Every pthread_join has returned; main reads eflag.
MainJoin ==
    /\ status = "running"
    /\ pc = "join"
    /\ \A i \in Widgets : th[i].pc \in {"none", "exited"}
    /\ \E e \in BOOLEAN :
         IF e
         THEN eflag' = "set" /\ ret' = "EXIT_SUCCESS" /\ pc' = "cleanup"
         ELSE eflag' = "clear" /\ ret' = ret /\ pc' = "hang"
    /\ UNCHANGED <<status, mi, widgets, sepstate, barlib, map, held, th, ew, lateGet, got,
                   lastget, boot, loader, req, parse, lk, udev>>

\* widget_destroy: for a widget that is not stillborn, the plugin's
\* destroy() (which frees its private data), plugin_unload, lua_close,
\* pthread_mutex_destroy.
widget_destroy(w) ==
    IF ~widget_is_stillborn(w)
    THEN [w EXCEPT !.calls = @ \o <<"destroy", "plugin_unload", "lua_close">>,
                   !.nfree = @ + 1,
                   !.plugin = "unloaded", !.L = "closed", !.L_mtx = "destroyed",
                   !.filename = -1]
    ELSE w

barlib_destroy(b) == [b EXCEPT !.dlhandle = "closed", !.set_mtx = "destroyed"]

sepstate_maybe_destroy(s) ==
    IF s.L = "NULL" THEN s ELSE [s EXCEPT !.L = "closed", !.L_mtx = "destroyed"]

\* A faulty variant: cleanup calls barlib_destroy whether or not the barlib
\* was initialized.
MainCleanup_destroys_barlib ==
    /\ status = "running"
    /\ pc = "cleanup"
    /\ widgets' = [i \in Widgets |-> widget_destroy(widgets[i])]
    /\ barlib' = barlib_destroy(barlib)
    /\ sepstate' = sepstate_maybe_destroy(sepstate)
    /\ map' = [map EXCEPT !.entries = <<>>]
    /\ pc' = "returned"
    /\ status' = IF ret = "EXIT_SUCCESS" THEN "exit_success" ELSE "exit_failure"
    /\ UNCHANGED <<mi, held, th, ew, eflag, ret, lateGet, got, lastget, boot, loader, req, parse, lk, udev>>

\* cleanup: widgets_destroy, barlib_destroy, sepstate_maybe_destroy,
\* map_destroy; return ret.
MainCleanup ==
    /\ status = "running"
    /\ pc = "cleanup"
    /\ widgets' = [i \in Widgets |-> widget_destroy(widgets[i])]
    /\ barlib' = IF barlib.inited THEN barlib_destroy(barlib) ELSE barlib
    /\ sepstate' = sepstate_maybe_destroy(sepstate)
    /\ map' = [map EXCEPT !.entries = <<>>]
    /\ pc' = "returned"
    /\ status' = IF ret = "EXIT_SUCCESS" THEN "exit_success" ELSE "exit_failure"
    /\ UNCHANGED <<mi, held, th, ew, eflag, ret, lateGet, got, lastget, boot, loader, req, parse, lk, udev>>

\* ------------------------------------------------- the map and its clients

\* A module calls map_get(key) and keeps the pointer.  lastget records the
\* call: the key, whether the map was frozen, whether the key was present, the
\* number of entries before the call, and the outcome.
MapClientGet(key) ==
    /\ status = "running"
    /\ LET g == map_get(map, key)
       IN  /\ map' = g.map
           /\ IF g.abort THEN abort ELSE UNCHANGED <<status, pc, th, ew>>
           /\ got' = IF g.abort THEN got ELSE [got EXCEPT ![key] = g.ptr]
           /\ lastget' = [key |-> key, frozen |-> map.frozen,
                          found |-> MapFind(map, key) # 0,
                          size |-> Len(map.entries),
                          res |-> IF g.abort THEN "abort" ELSE "ptr",
                          ptr |-> g.ptr]
    /\ UNCHANGED <<mi, widgets, sepstate, barlib, held, eflag, ret, lateGet, boot, loader, req, parse, lk, udev>>

\* A module stores v through the pointer it holds for key: *ptr = v.
MapClientStore(key, v) ==
    /\ status = "running"
    /\ got[key] # 0
    /\ map' = [map EXCEPT !.entries =
                 [n \in 1 .. Len(@) |-> IF @[n].addr = got[key]
                                        THEN [@[n] EXCEPT !.value = v] ELSE @[n]]]
    /\ UNCHANGED <<status, pc, mi, widgets, sepstate, barlib, held, th, ew, eflag, ret,
                   lateGet, got, lastget, boot, loader, req, parse, lk, udev>>

\* main freezes the map.
MapFreeze ==
    /\ status = "running"
    /\ ~map.frozen
    /\ map' = freeze(map)
    /\ UNCHANGED <<status, pc, mi, widgets, sepstate, barlib, held, th, ew, eflag, ret,
                   lateGet, got, lastget, boot, loader, req, parse, lk, udev>>

NextMap ==
    \/ \E key \in Keys : MapClientGet(key)
    \/ \E key \in Keys, v \in Values : MapClientStore(key, v)
    \/ MapFreeze

SpecMap == Init /\ [][NextMap]_vars

\* -------------------------------------------- plugin_load and barlib_init

progvars == <<status, pc, mi, widgets, sepstate, barlib, map, held, th, ew, eflag, ret,
              lateGet, got, lastget, boot>>

\* plugin_load(p, filename, name) or barlib_init(filename, opts) is entered:
\* dlhandle = NULL.
load_begin(kind, file, host) ==
    /\ loader.pc \in {"none", "returned"}
    /\ loader' = [NoLoad EXCEPT !.pc = "dlopen", !.kind = kind, !.file = file, !.host = host]
    /\ UNCHANGED <<progvars, req, parse, lk, udev>>

\* dlopen(filename, RTLD_NOW | RTLD_LOCAL)
load_dlopen ==
    /\ loader.pc = "dlopen"
    /\ loader' = [loader EXCEPT !.steps = Append(@, "dlopen"),
                        !.dlhandle = IF loader.file.opens THEN "open" ELSE "NULL",
                        !.nopen = IF loader.file.opens THEN @ + 1 ELSE @,
                        !.pc = IF loader.file.opens THEN "dlsym_version" ELSE "error"]
    /\ UNCHANGED <<progvars, req, parse, lk, udev>>

\* dlsym(dlhandle, "LUASTATUS_..._LUA_VERSION_NUM")
load_dlsym_version ==
    /\ loader.pc = "dlsym_version"
    /\ loader' = [loader EXCEPT !.steps = Append(@, "dlsym_version"),
                        !.pc = IF loader.file.has_version THEN "compare" ELSE "error"]
    /\ UNCHANGED <<progvars, req, parse, lk, udev>>

\* *p_lua_ver != LUA_VERSION_NUM
load_compare ==
    /\ loader.pc = "compare"
    /\ loader' = [loader EXCEPT !.steps = Append(@, "compare"),
                        !.pc = IF loader.file.version = loader.host THEN "dlsym_iface" ELSE "error"]
    /\ UNCHANGED <<progvars, req, parse, lk, udev>>

\* dlsym(dlhandle, "luastatus_..._iface_v1"); the interface is copied.  A
\* plugin is loaded now; the barlib has its init() called next.
load_dlsym_iface ==
    /\ loader.pc = "dlsym_iface"
    /\ loader' = [loader EXCEPT !.steps = Append(@, "dlsym_iface"),
                        !.pc = IF ~loader.file.has_iface THEN "error"
                               ELSE IF loader.kind = "barlib" THEN "init" ELSE "returned",
                        !.ret = IF loader.file.has_iface /\ loader.kind = "plugin"
                                THEN "true" ELSE @]
    /\ UNCHANGED <<progvars, req, parse, lk, udev>>

\* barlib.iface.init(&barlib.data, opts, nwidgets)
load_barlib_iface_init ==
    /\ loader.pc = "init"
    /\ loader' = [loader EXCEPT !.steps = Append(@, "init"),
                        !.ncalls = @ + 1,
                        !.pc = IF loader.file.init_ok THEN "returned" ELSE "error",
                        !.ret = IF loader.file.init_ok THEN "true" ELSE @]
    /\ UNCHANGED <<progvars, req, parse, lk, udev>>

\* A faulty variant: the error label never calls dlclose.
load_error_keeps_handle ==
    /\ loader.pc = "error"
    /\ loader' = [loader EXCEPT !.pc = "returned", !.ret = "false"]
    /\ UNCHANGED <<progvars, req, parse, lk, udev>>

\* error: if (dlhandle) dlclose(dlhandle); return false.
load_error ==
    /\ loader.pc = "error"
    /\ loader' = [loader EXCEPT !.dlhandle = IF @ = "open" THEN "closed" ELSE @,
                        !.nclose = IF loader.dlhandle = "open" THEN @ + 1 ELSE @,
                        !.pc = "returned",
                        !.ret = "false"]
    /\ UNCHANGED <<progvars, req, parse, lk, udev>>

NextLoad ==
    \/ \E kind \in {"plugin", "barlib"}, file \in ModuleFiles, host \in Versions :
          load_begin(kind, file, host)
    \/ load_dlopen
    \/ load_dlsym_version
    \/ load_compare
    \/ load_dlsym_iface
    \/ load_barlib_iface_init
    \/ load_error

SpecLoad == Init /\ [][NextLoad]_vars

\* ------------------------------------------------------ l_require_plugin

\* The number of luastatus.require_plugin calls looked at.
MaxRequire == 4

RequireCalls ==
    LET RECURSIVE Sum(_, _)
        Sum(f, S) == IF S = {} THEN 0
                     ELSE LET x == CHOOSE x \in S : TRUE IN f[x] + Sum(f, S \ {x})
    IN  Sum([p \in DOMAIN req |-> req[p].ncall], DOMAIN req)

\* The record of state c and name n: a name never asked for in c has no
\* field in c's registry.
Required(c, n) == IF <<c, n>> \in DOMAIN req THEN req[<<c, n>>] ELSE NoRequire

HasSlash(arg) == arg = "x/y"

\* What calling the chunk of arg's file for the id-th time gives.
ChunkResult(arg, id) ==
    CASE PluginsDir[arg] = "table" -> [k |-> "table", id |-> id]
      [] PluginsDir[arg] = "false" -> [k |-> "false", id |-> 0]
      [] PluginsDir[arg] = "error" -> LuaError
      [] OTHER -> LuaNil

\* l_require_plugin on the registry entry r of one Lua state: a name with a
\* slash is an error; a field of the registry that is not nil is returned;
\* otherwise luaL_loadfile (an error if it fails), lua_call(L, 0, 1), and
\* lua_setfield of the result, which for nil leaves the field nil.
require_plugin(r, arg) ==
    LET returns(res, r1) ==
            [r1 EXCEPT !.ncall = @ + 1, !.latest = res,
                       !.first = IF r.ncall = 0 THEN res ELSE @]
    IN  IF HasSlash(arg) THEN returns(LuaError, r)
        ELSE IF r.memo # LuaNil THEN returns(r.memo, r)
        ELSE IF PluginsDir[arg] = "missing" THEN returns(LuaError, r)
        ELSE LET res == ChunkResult(arg, r.nexec + 1)
                 r1 == [r EXCEPT !.nexec = @ + 1]
             IN  IF res = LuaError THEN returns(LuaError, r1)
                 ELSE returns(res, [r1 EXCEPT !.memo = res])

\* Lua code running in state c calls luastatus.require_plugin(arg).
l_require_plugin(c, arg) ==
    /\ RequireCalls < MaxRequire
    /\ req' = [p \in DOMAIN req \cup {<<c, arg>>} |->
                  IF p = <<c, arg>> THEN require_plugin(Required(c, arg), arg)
                  ELSE req[p]]
    /\ UNCHANGED <<progvars, loader, parse, lk, udev>>

NextRequire == \E c \in Contexts, arg \in PluginNames : l_require_plugin(c, arg)

SpecRequire == Init /\ [][NextRequire]_vars

\* ------------------------------------------------------------ parse_int.h

\* The largest value of the result type (int), scaled down.
IntMax == 20

\* The longest string looked at.
MaxLen == 3

EINVAL == 22
ERANGE == 34

\* Characters: a decimal digit is its value; NonDigit is any other character
\* but the terminator; NUL is the terminator.
Digits == {0, 1, 2, 9}
NonDigit == 10
NUL == 11
Chars == Digits \cup {NonDigit}

IsDigit(c) == c \in 0 .. 9

Strings == UNION {[1 .. n -> Chars] : n \in 0 .. MaxLen}

strlen(s) == Len(s)

\* s[i] in C, i counted from 0; the string is zero-terminated.
CharAt(s, i) == IF i < Len(s) THEN s[i + 1] ELSE NUL

\* ls_strtou_b(s, ns, &endptr): inspects no more than the first ns characters;
\* stops at the limit or at a non-digit, sets endptr (as an offset) and
\* returns what was parsed so far; -ERANGE once the value overflows.
RECURSIVE strtou_from(_, _, _, _)
strtou_from(s, ns, i, acc) ==
    IF i = ns \/ ~IsDigit(CharAt(s, i))
    THEN [ret |-> acc, endptr |-> i]
    ELSE IF acc * 10 + CharAt(s, i) > IntMax
         THEN [ret |-> -ERANGE, endptr |-> i]
         ELSE strtou_from(s, ns, i + 1, acc * 10 + CharAt(s, i))

ls_strtou_b(s, ns) == strtou_from(s, ns, 0, 0)

\* A faulty variant: what ls_strtou_b parsed is returned wherever it stopped.
ls_full_strtou_b_partial(s, ns) ==
    IF ns = 0 THEN -EINVAL ELSE ls_strtou_b(s, ns).ret

\* ls_full_strtou_b(s, ns): -EINVAL if ns is 0; the first ns characters are
\* parsed; -ERANGE if that overflowed, -EINVAL if it stopped before the ns-th
\* character.
ls_full_strtou_b(s, ns) ==
    IF ns = 0 THEN -EINVAL
    ELSE LET r == ls_strtou_b(s, ns)
         IN  IF r.ret < 0 THEN r.ret
             ELSE IF r.endptr # ns THEN -EINVAL
             ELSE r.ret

ls_full_strtou(s) == ls_full_strtou_b(s, strlen(s))

\* A caller parses the first ns characters of s, and s as a whole.
ParseCall(s, ns) ==
    /\ ~parse.called
    /\ ns <= strlen(s) + 1
    /\ parse' = [called |-> TRUE, s |-> s, ns |-> ns,
                 ret |-> ls_full_strtou_b(s, ns), retz |-> ls_full_strtou(s)]
    /\ UNCHANGED <<progvars, loader, req, lk, udev>>

NextParse == \E s \in Strings, ns \in 0 .. MaxLen + 1 : ParseCall(s, ns)

SpecParse == Init /\ [][NextParse]_vars

\* ------------------------------------------------- the locking protocol

\* pthread_mutex_lock returns to t; pthread_mutex_unlock.
LkFree(l) == l \notin DOMAIN lk.owner
LkTake(o, l, t) == (l :> t) @@ o
LkGive(o, l) == [x \in DOMAIN o \ {l} |-> o[x]]
LkOwns(t, l) == l \in DOMAIN lk.owner /\ lk.owner[l] = t

\* widget_event_L_mtx of widget j: sepstate's mutex for a string event and
\* for a stillborn widget.
LkEventMtx(j) == IF lk.kind[j] \in {"sep", "stillborn"} THEN SepLock ELSE j

\* widgets_init, one widget: stillborn, or normal with its event in its own
\* state or in sepstate.
lk_widgets_init(k) ==
    /\ lk.pc = "widgets_init"
    /\ lk.mi < NWidgets
    /\ lk' = [lk EXCEPT !.kind = (lk.mi :> k) @@ @,
                        !.mi = IF lk.mi + 1 = NWidgets THEN 0 ELSE @ + 1,
                        !.pc = IF lk.mi + 1 = NWidgets THEN "spawn" ELSE @]
    /\ UNCHANGED <<progvars, loader, req, parse, udev>>

\* The spawn loop comes to LOCK_B for a stillborn widget.
lk_spawn_stillborn ==
    /\ lk.pc = "spawn"
    /\ lk.mi < NWidgets
    /\ lk.kind[lk.mi] = "stillborn"
    /\ lk' = [lk EXCEPT !.pc = "wait_b"]
    /\ UNCHANGED <<progvars, loader, req, parse, udev>>

\* The spawn loop creates the thread of a normal widget.
lk_spawn_thread ==
    /\ lk.pc = "spawn"
    /\ lk.mi < NWidgets
    /\ lk.kind[lk.mi] # "stillborn"
    /\ lk' = [lk EXCEPT !.th = (lk.mi :> "run") @@ @, !.mi = @ + 1]
    /\ UNCHANGED <<progvars, loader, req, parse, udev>>

\* main calls the barlib's event_watcher.
lk_start_watcher ==
    /\ lk.pc = "spawn"
    /\ lk.mi = NWidgets
    /\ lk' = [lk EXCEPT !.pc = "idle"]
    /\ UNCHANGED <<progvars, loader, req, parse, udev>>

\* LOCK_B returns to main, in the spawn loop or in ew_call_end; set_error is
\* called.
lk_main_LOCK_B ==
    /\ lk.pc = "wait_b"
    /\ LkFree(BarLock)
    /\ lk' = [lk EXCEPT !.pc = "in_set_error", !.owner = LkTake(@, BarLock, MainT)]
    /\ UNCHANGED <<progvars, loader, req, parse, udev>>

\* A faulty variant: main returns from set_error without UNLOCK_B.
lk_main_UNLOCK_B_forgotten ==
    /\ lk.pc = "in_set_error"
    /\ IF lk.mi < NWidgets
       THEN lk' = [lk EXCEPT !.pc = "spawn", !.mi = @ + 1]
       ELSE lk' = [lk EXCEPT !.pc = "idle", !.j = 0, !.owner = LkGive(@, LkEventMtx(lk.j))]
    /\ UNCHANGED <<progvars, loader, req, parse, udev>>

\* set_error returns to main: UNLOCK_B, and in ew_call_end UNLOCK_E.
lk_main_UNLOCK_B ==
    /\ lk.pc = "in_set_error"
    /\ IF lk.mi < NWidgets
       THEN lk' = [lk EXCEPT !.pc = "spawn", !.mi = @ + 1,
                            !.owner = LkGive(@, BarLock)]
       ELSE lk' = [lk EXCEPT !.pc = "idle", !.j = 0,
                            !.owner = LkGive(LkGive(@, BarLock), LkEventMtx(lk.j))]
    /\ UNCHANGED <<progvars, loader, req, parse, udev>>

\* The watcher calls ew_call_begin for widget j and comes to LOCK_E.
lk_ew_call_begin(j) ==
    /\ lk.pc = "idle"
    /\ lk' = [lk EXCEPT !.pc = "wait_e", !.j = j]
    /\ UNCHANGED <<progvars, loader, req, parse, udev>>

\* LOCK_E returns.
lk_ew_LOCK_E ==
    /\ lk.pc = "wait_e"
    /\ LkFree(LkEventMtx(lk.j))
    /\ lk' = [lk EXCEPT !.pc = "begun", !.owner = LkTake(@, LkEventMtx(lk.j), MainT)]
    /\ UNCHANGED <<progvars, loader, req, parse, udev>>

\* ew_call_cancel: UNLOCK_E.
lk_ew_call_cancel ==
    /\ lk.pc = "begun"
    /\ lk' = [lk EXCEPT !.pc = "idle", !.j = 0, !.owner = LkGive(@, LkEventMtx(lk.j))]
    /\ UNCHANGED <<progvars, loader, req, parse, udev>>

\* ew_call_end: with no event or a callback that succeeded, UNLOCK_E; after
\* a callback that failed the watcher comes to LOCK_B.
lk_ew_call_end(ok) ==
    /\ lk.pc = "begun"
    /\ IF ok
       THEN lk' = [lk EXCEPT !.pc = "idle", !.j = 0, !.owner = LkGive(@, LkEventMtx(lk.j))]
       ELSE lk' = [lk EXCEPT !.pc = "wait_b"]
    /\ UNCHANGED <<progvars, loader, req, parse, udev>>

\* event_watcher returns between two calls.
lk_watcher_returns ==
    /\ lk.pc = "idle"
    /\ lk' = [lk EXCEPT !.pc = "returned"]
    /\ UNCHANGED <<progvars, loader, req, parse, udev>>

LkAt(i, where) == i \in DOMAIN lk.th /\ lk.th[i] = where

\* The plugin calls plugin_call_begin and comes to LOCK_L.
lk_plugin_call_begin(i) ==
    /\ LkAt(i, "run")
    /\ lk' = [lk EXCEPT !.th[i] = "wait_l"]
    /\ UNCHANGED <<progvars, loader, req, parse, udev>>

\* LOCK_L returns.
lk_LOCK_L(i) ==
    /\ LkAt(i, "wait_l")
    /\ LkFree(i)
    /\ lk' = [lk EXCEPT !.th[i] = "begun", !.owner = LkTake(@, i, i)]
    /\ UNCHANGED <<progvars, loader, req, parse, udev>>

\* plugin_call_cancel: UNLOCK_L.
lk_plugin_call_cancel(i) ==
    /\ LkAt(i, "begun")
    /\ lk' = [lk EXCEPT !.th[i] = "run", !.owner = LkGive(@, i)]
    /\ UNCHANGED <<progvars, loader, req, parse, udev>>

\* plugin_call_end: the callback has returned and the thread comes to LOCK_B.
lk_plugin_call_end(i) ==
    /\ LkAt(i, "begun")
    /\ lk' = [lk EXCEPT !.th[i] = "wait_b"]
    /\ UNCHANGED <<progvars, loader, req, parse, udev>>

\* The plugin's run() returns and widget_thread comes to LOCK_B.
lk_run_returns(i) ==
    /\ LkAt(i, "run")
    /\ lk' = [lk EXCEPT !.th[i] = "wait_b"]
    /\ UNCHANGED <<progvars, loader, req, parse, udev>>

\* LOCK_B returns to a widget's thread; set() or set_error() is called.
lk_LOCK_B(i) ==
    /\ LkAt(i, "wait_b")
    /\ LkFree(BarLock)
    /\ lk' = [lk EXCEPT !.th[i] = "in_set", !.owner = LkTake(@, BarLock, i)]
    /\ UNCHANGED <<progvars, loader, req, parse, udev>>

\* set() or set_error() has returned to a widget's thread: UNLOCK_B, then
\* UNLOCK_L in plugin_call_end, the end of the thread in widget_thread.
lk_UNLOCK_B(i) ==
    /\ LkAt(i, "in_set")
    /\ IF LkOwns(i, i)
       THEN lk' = [lk EXCEPT !.th[i] = "run", !.owner = LkGive(LkGive(@, BarLock), i)]
       ELSE lk' = [lk EXCEPT !.th[i] = "exited", !.owner = LkGive(@, BarLock)]
    /\ UNCHANGED <<progvars, loader, req, parse, udev>>

NextLocks ==
    \/ \E k \in {"own", "sep", "stillborn"} : lk_widgets_init(k)
    \/ lk_spawn_stillborn
    \/ lk_spawn_thread
    \/ lk_start_watcher
    \/ lk_main_LOCK_B
    \/ lk_main_UNLOCK_B
    \/ \E j \in Widgets : lk_ew_call_begin(j)
    \/ lk_ew_LOCK_E
    \/ lk_ew_call_cancel
    \/ \E ok \in BOOLEAN : lk_ew_call_end(ok)
    \/ lk_watcher_returns
    \/ \E i \in Widgets : lk_plugin_call_begin(i)
    \/ \E i \in Widgets : lk_LOCK_L(i)
    \/ \E i \in Widgets : lk_plugin_call_cancel(i)
    \/ \E i \in Widgets : lk_plugin_call_end(i)
    \/ \E i \in Widgets : lk_run_returns(i)
    \/ \E i \in Widgets : lk_LOCK_B(i)
    \/ \E i \in Widgets : lk_UNLOCK_B(i)

\* The next step of a widget's thread that is not the plugin's choice: a
\* pthread_mutex_lock it waits in returns, the callback or the barlib's
\* set() / set_error() it is in returns.
lk_thread_proceeds(i) ==
    \/ lk_LOCK_L(i)
    \/ lk_plugin_call_cancel(i)
    \/ lk_plugin_call_end(i)
    \/ lk_LOCK_B(i)
    \/ lk_UNLOCK_B(i)

\* The same for the main thread, in the spawn loop and in the watcher's calls.
lk_main_proceeds ==
    \/ lk_main_LOCK_B
    \/ lk_main_UNLOCK_B
    \/ lk_ew_LOCK_E
    \/ lk_ew_call_cancel
    \/ \E ok \in BOOLEAN : lk_ew_call_end(ok)

\* What the claim takes the callers, the callbacks and the barlib to do: a
\* call_begin is followed by call_end or call_cancel and the callback
\* returns; set() and set_error() return; and a thread waiting in
\* pthread_mutex_lock gets the mutex if it keeps becoming free.
LocksFairness ==
    /\ \A i \in Widgets : SF_vars(lk_thread_proceeds(i))
    /\ SF_vars(lk_main_proceeds)

SpecLocks == Init /\ [][NextLocks]_vars /\ LocksFairness

\* ------------------------------------------------------- the udev plugin
\*
\* udev.pc is where the plugin's thread is: "run" (run() entered), "report"
\* (report_status or report_event entered, about to call call_begin), "begun"
\* (call_begin has returned), "cb" (inside call_end, the widget's cb running),
\* "loop" (the top of the loop, at pthread_spin_lock), "locked" (the spin
\* lock taken), "pselect" (from the unlock on, the wait of this iteration) and
\* "returned".  udev.L is the holder of the widget's L_mtx: the plugin's
\* thread between call_begin and the return of call_end, or main while the
\* widget's event function runs.  The Lua code that runs under L_mtx (cb or
\* event) may call push_timeout; udev.storing says that it is between the
\* lock and the unlock of l_push_timeout, with udev.arg to store.
\* Recorded for the properties: npush and lastpush (the calls of push_timeout
\* that stored since run() last read, and what the last one stored), took
\* (npush as it was when run() read for the wait it is in), open
\* (calls of call_begin minus calls of call_end), reports (calls of
\* call_begin since the iteration started), hello (reports of "hello"),
\* waited (an iteration has started its wait), top (the Lua stack's top).

\* init(): Priv with its defaults, then the options; a non-negative timeout
\* that does not convert makes init fail.
udev_init(g, has, n) ==
    /\ udev.pc = "init"
    /\ LET t == IF has /\ n >= 0 THEN ls_timespec_from_seconds(n)
                                 ELSE ls_timespec_invalid
       IN udev' = IF has /\ n >= 0 /\ ls_timespec_is_invalid(t)
                  THEN [pc |-> "init_failed"]
                  ELSE [pc |-> "run", greet |-> g, timeout |-> t,
                        pushed_timeout |-> ls_timespec_invalid,
                        push_lock |-> FALSE, run_timeout |-> ls_timespec_invalid,
                        what |-> "", top |-> 0, L |-> "free",
                        storing |-> FALSE, arg |-> ls_timespec_invalid,
                        npush |-> 0, lastpush |-> ls_timespec_invalid,
                        took |-> 0, open |-> 0, reports |-> 0, hello |-> 0,
                        waited |-> FALSE]
    /\ UNCHANGED <<progvars, loader, req, parse, lk>>

UdevAt(where) == udev.pc = where

\* run() up to the loop: report_status("hello") if greet.
udev_run_greet ==
    /\ UdevAt("run")
    /\ udev' = IF udev.greet THEN [udev EXCEPT !.pc = "report", !.what = "hello"]
                             ELSE [udev EXCEPT !.pc = "loop"]
    /\ UNCHANGED <<progvars, loader, req, parse, lk>>

\* funcs.call_begin returns: plugin_call_begin has taken the widget's L_mtx.
udev_call_begin ==
    /\ UdevAt("report")
    /\ udev.L = "free"
    /\ udev' = [udev EXCEPT !.pc = "begun", !.L = "plugin", !.top = 0,
                            !.open = @ + 1, !.reports = @ + 1,
                            !.hello = IF udev.what = "hello" THEN @ + 1 ELSE @]
    /\ UNCHANGED <<progvars, loader, req, parse, lk>>

\* The Lua API calls of the reports, by their effect on the stack's top.
lua_createtable(top) == top + 1
lua_pushstring(top) == top + 1
lua_setfield(top) == top - 1

\* A faulty variant of PROP: the string is pushed and not stored.
PROP_without_setfield(top, r) == IF r THEN lua_pushstring(top) ELSE top

\* PROP(Key_, Func_) with r = (Func_(dev) is not NULL).
PROP(top, r) == IF r THEN lua_setfield(lua_pushstring(top)) ELSE top

\* The PROP lines of report_event for a device whose non-NULL properties
\* are dev.
RECURSIVE PROPS(_, _, _)
PROPS(top, keys, dev) ==
    IF keys = {} THEN top
    ELSE LET k == CHOOSE x \in keys : TRUE
         IN PROPS(PROP(top, k \in dev), keys \ {k}, dev)

\* report_status from call_begin's return to the call of call_end.
udev_report_status ==
    /\ UdevAt("begun")
    /\ udev.what \in {"hello", "timeout"}
    /\ udev' = [udev EXCEPT !.pc = "cb", !.open = @ - 1,
                            !.top = lua_setfield(lua_pushstring(lua_createtable(@)))]
    /\ UNCHANGED <<progvars, loader, req, parse, lk>>

\* report_event from call_begin's return to the call of call_end.
udev_report_event(dev) ==
    /\ UdevAt("begun")
    /\ udev.what = "event"
    /\ udev' = [udev EXCEPT !.pc = "cb", !.open = @ - 1,
                            !.top = PROPS(lua_setfield(lua_pushstring(lua_createtable(@))),
                                          Props, dev)]
    /\ UNCHANGED <<progvars, loader, req, parse, lk>>

\* call_end returns (cb has returned, L_mtx is released); the report returns
\* to run(), which goes to the top of the loop.
udev_call_end_returns ==
    /\ UdevAt("cb")
    /\ ~udev.storing
    /\ udev' = [udev EXCEPT !.pc = "loop", !.L = "free"]
    /\ UNCHANGED <<progvars, loader, req, parse, lk>>

\* pthread_spin_lock(&p->push_lock) can return.
push_lock_free == ~udev.push_lock

\* run(): pthread_spin_lock at the top of the loop.
udev_run_spin_lock ==
    /\ UdevAt("loop")
    /\ push_lock_free
    /\ udev' = [udev EXCEPT !.pc = "locked", !.push_lock = TRUE]
    /\ UNCHANGED <<progvars, loader, req, parse, lk>>

\* A faulty variant of the read under the lock: pushed_timeout is kept.
run_take_kept(p) ==
    IF ls_timespec_is_invalid(p.pushed_timeout)
    THEN [p EXCEPT !.run_timeout = p.timeout]
    ELSE [p EXCEPT !.run_timeout = p.pushed_timeout]

\* run(): the read under the lock; a pushed timeout is taken and cleared.
run_take(p) ==
    IF ls_timespec_is_invalid(p.pushed_timeout)
    THEN [p EXCEPT !.run_timeout = p.timeout]
    ELSE [p EXCEPT !.run_timeout = p.pushed_timeout,
                   !.pushed_timeout = ls_timespec_invalid]

\* run(): the read, pthread_spin_unlock, and pselect is entered.
udev_run_take ==
    /\ UdevAt("locked")
    /\ udev' = [run_take(udev) EXCEPT !.pc = "pselect", !.push_lock = FALSE,
                                      !.npush = 0, !.lastpush = ls_timespec_invalid,
                                      !.took = udev.npush,
                                      !.reports = 0, !.waited = TRUE]
    /\ UNCHANGED <<progvars, loader, req, parse, lk>>

\* pselect returns r: an error ends the loop; 0, which takes a timeout, is
\* reported as "timeout"; a readable monitor gives a device (reported as
\* "event") or NULL (continue).
udev_pselect(r, dev) ==
    /\ UdevAt("pselect")
    /\ r = 0 => ~ls_timespec_is_invalid(udev.run_timeout)
    /\ udev' = IF r < 0 THEN [udev EXCEPT !.pc = "returned"]
               ELSE IF r = 0 THEN [udev EXCEPT !.pc = "report", !.what = "timeout"]
               ELSE IF dev THEN [udev EXCEPT !.pc = "report", !.what = "event"]
               ELSE [udev EXCEPT !.pc = "loop"]
    /\ UNCHANGED <<progvars, loader, req, parse, lk>>

\* The widget's event function is called in the widget's Lua state, under
\* the widget's L_mtx.
udev_event_begin ==
    /\ udev.pc \notin {"init", "init_failed"}
    /\ udev.L = "free"
    /\ udev' = [udev EXCEPT !.L = "event"]
    /\ UNCHANGED <<progvars, loader, req, parse, lk>>

\* The event function has returned.
udev_event_end ==
    /\ udev.pc \notin {"init", "init_failed"}
    /\ udev.L = "event"
    /\ ~udev.storing
    /\ udev' = [udev EXCEPT !.L = "free"]
    /\ UNCHANGED <<progvars, loader, req, parse, lk>>

\* Lua code of the widget is running: cb in call_end, or event.
LuaRunning ==
    /\ udev.pc \notin {"init", "init_failed"}
    /\ \/ udev.pc = "cb"
       \/ udev.L = "event"

\* l_push_timeout(n) up to the lock taken; an invalid timeout is a Lua error
\* and nothing is stored.
l_push_timeout(n) ==
    /\ LuaRunning
    /\ ~udev.storing
    /\ udev.npush < MaxPushes
    /\ IF ls_timespec_is_invalid(ls_timespec_from_seconds(n))
       THEN udev' = udev
       ELSE /\ push_lock_free
            /\ udev' = [udev EXCEPT !.storing = TRUE, !.push_lock = TRUE,
                                    !.arg = ls_timespec_from_seconds(n)]
    /\ UNCHANGED <<progvars, loader, req, parse, lk>>

\* l_push_timeout: the store and pthread_spin_unlock.
l_push_timeout_store ==
    /\ udev.pc \notin {"init", "init_failed"}
    /\ udev.storing
    /\ udev' = [udev EXCEPT !.pushed_timeout = udev.arg, !.push_lock = FALSE,
                            !.storing = FALSE, !.arg = ls_timespec_invalid,
                            !.npush = @ + 1, !.lastpush = udev.arg]
    /\ UNCHANGED <<progvars, loader, req, parse, lk>>

NextUdev ==
    \/ \E g, has \in BOOLEAN, n \in Seconds : udev_init(g, has, n)
    \/ udev_run_greet
    \/ udev_call_begin
    \/ udev_report_status
    \/ \E dev \in SUBSET Props : udev_report_event(dev)
    \/ udev_call_end_returns
    \/ udev_run_spin_lock
    \/ udev_run_take
    \/ \E r \in -1 .. 1, dev \in BOOLEAN : udev_pselect(r, dev)
    \/ udev_event_begin
    \/ udev_event_end
    \/ \E n \in Seconds : l_push_timeout(n)
    \/ l_push_timeout_store

\* run() goes on from call_begin's return to its call of call_end, and the
\* Lua code that called push_timeout goes on to the end of it.
UdevFairness ==
    /\ WF_vars(udev_report_status \/ \E dev \in SUBSET Props : udev_report_event(dev))
    /\ WF_vars(l_push_timeout_store)

SpecUdev == Init /\ [][NextUdev]_vars /\ UdevFairness

Next ==
    \/ WidgetsInitStep
    \/ MainBarlibInit
    \/ MainFreeze
    \/ MainSepstateRegister
    \/ SpawnLockB
    \/ SpawnSetErrorReturn
    \/ SpawnRegisterFuncs
    \/ SpawnThread
    \/ MainStartWatcher
    \/ \E i \in Widgets : plugin_call_begin(i)
    \/ \E i \in Widgets : plugin_call_end_call(i)
    \/ \E i \in Widgets : plugin_call_end_lock(i)
    \/ \E i \in Widgets : plugin_set_return(i)
    \/ \E i \in Widgets : plugin_set_error_return(i)
    \/ \E i \in Widgets : plugin_call_cancel(i)
    \/ \E i \in Widgets : widget_thread_lock(i)
    \/ \E i \in Widgets : widget_thread_exit(i)
    \/ \E j \in Widgets : ew_call_begin(j)
    \/ ew_call_end_call
    \/ ew_call_end_lock
    \/ ew_set_error_return
    \/ ew_call_cancel
    \/ MainWatcherReturns
    \/ \E t \in Threads, key \in Keys : ModuleMapGet(t, key)
    \/ MainJoin
    \/ MainCleanup

Spec == Init /\ [][Next]_vars

\* main is not blocked at the cleanup label: the code from there to return is
\* straight-line.
SpecLive == Spec /\ WF_vars(MainCleanup)

\* ================================================================ properties

\* ------------------------------------------------- the bridge and its locks

\* Observations of a state.  A scripting context exists; a bridge call of
\* widget i's thread, or of the event watcher, is in flight; the context the
\* watcher's call is on; main is inside register_funcs for widget c; a thread
\* is inside the barlib's set() or set_error().
Live(c) == IF c = SepLock THEN sepstate.L = "live" ELSE widgets[c].L = "live"
PluginInCall(i) == th[i].pc \in {"begun", "end_lock", "in_set", "in_set_error"}
EwInCall == ew.pc \in {"begun", "end_lock", "in_set_error"}
EwCtx == widget_event_lua_state(ew.idx)
InFlight(c) == (c \in Widgets /\ PluginInCall(c)) \/ (EwInCall /\ EwCtx = c)
Registering(c) == pc = "register_funcs" /\ mi = c
InSet(t) ==
    IF t = MainT
    THEN pc = "spawn_set_error" \/ ew.pc = "in_set_error"
    ELSE th[t].pc \in {"in_set", "in_set_error", "thread_set_error"}
\* The positions, in the order of locking, of what thread t holds.
HeldPos(t) == 1 .. Len(held[t])

\* C1: while the process runs, every context on which no bridge call is in
\* flight (none was begun, or each one begun was ended by call_end or
\* call_cancel, whatever the callback did) has a stack of depth 1 and its
\* mutex released; and the watcher's call, once over, has left the context it
\* was on in that state unless a widget thread has begun a call on it since.
C1_BridgeBalanced ==
    status = "running" =>
       /\ \A c \in CtxLocks :
             (Live(c) /\ ~InFlight(c) /\ ~Registering(c)) => (Top(c) = 1 /\ Free(c))
       /\ \A c \in CtxLocks : InFlight(c) => ~Free(c)
       /\ (ew.pc = "idle" /\ ew.last # "none") => held[MainT] = <<>>

\* The case of C1: the watcher's call on a widget's own context is over, the
\* callback raised an error that was reported; the widget's thread is between
\* two calls; the stack is at depth 1 and the mutex is free.
C1_Witness ==
    /\ status = "running"
    /\ ew.pc = "idle" /\ ew.last = "end" /\ ew.ran /\ ew.nerr = 1
    /\ ~widget_is_stillborn(widgets[ew.idx])
    /\ EwCtx = ew.idx
    /\ th[ew.idx].pc = "run"
    /\ Top(ew.idx) = 1
    /\ Free(ew.idx)

\* C2: a thread inside set() or set_error(), from any of the four call sites,
\* holds barlib.set_mtx; so at most one thread is inside them at a time.
C2_SetUnderBarLock ==
    status = "running" =>
       /\ \A t \in Threads : InSet(t) => Holds(t, BarLock)
       /\ Cardinality({t \in Threads : InSet(t)}) <= 1
       /\ Cardinality({t \in Threads : Holds(t, BarLock)}) <= 1

\* The case of C2: widget k's thread is inside set() for k while the event
\* watcher, whose callback for k failed, waits for barlib.set_mtx to report it.
C2_Witness ==
    /\ status = "running"
    /\ ew.pc = "end_lock"
    /\ th[ew.idx].pc = "in_set"
    /\ Holds(ew.idx, BarLock)
    /\ ~Holds(MainT, BarLock)

\* C3, as the specification states it: whoever mutates a normal widget's
\* context (its thread inside a bridge call, the watcher inside a call on it,
\* main inside register_funcs) holds the widget's L_mtx.
C3_MutatedOnlyUnderLock ==
    \A c \in Widgets :
       /\ PluginInCall(c) => Holds(c, c)
       /\ (EwInCall /\ EwCtx = c) => Holds(MainT, c)
       /\ Registering(c) => Holds(MainT, c)

\* C3, as the code has it: once the widget's thread exists, whoever mutates
\* the context holds L_mtx, so the widget's cb and an event callback on the
\* widget's own context are never in flight together; register_funcs mutates
\* it without the mutex, on the main thread, before the widget's thread and
\* the event watcher exist, while the threads of earlier widgets run.
C3_MutatedUnderLockOnceShared ==
    \A c \in Widgets :
       /\ PluginInCall(c) => Holds(c, c)
       /\ (EwInCall /\ EwCtx = c) => Holds(MainT, c)
       /\ ~(PluginInCall(c) /\ EwInCall /\ EwCtx = c)
       /\ Registering(c) =>
             /\ Free(c)
             /\ th[c].pc = "none"
             /\ ew.pc = "none"
             /\ \A i \in Widgets : PluginInCall(i) => i < c

\* The case of C3: the watcher's call is in flight on the own context of a
\* widget whose thread runs, under that widget's L_mtx, while another
\* widget's thread is inside a bridge call of its own.
C3_Witness ==
    /\ EwInCall
    /\ EwCtx = ew.idx
    /\ th[ew.idx].pc = "run"
    /\ held[MainT] = <<ew.idx>>
    /\ \E i \in Widgets : i # ew.idx /\ PluginInCall(i)

\* C4, as the specification states it: a thread that holds barlib.set_mtx
\* and a context mutex took barlib.set_mtx first.
C4_BarLockFirst ==
    \A t \in Threads : \A b, c \in HeldPos(t) :
       (held[t][b] = BarLock /\ held[t][c] \in CtxLocks) => b < c

\* C4, as the code has it: a thread that holds barlib.set_mtx and a context
\* mutex took the context mutex first (call_begin) and barlib.set_mtx second
\* (call_end); the order is the same on every path, and the reverse of the
\* numbering of the hierarchy.
C4_ContextLockFirst ==
    \A t \in Threads : \A b, c \in HeldPos(t) :
       (held[t][b] = BarLock /\ held[t][c] \in CtxLocks) => c < b

\* The case of C4: a widget thread holds its L_mtx and barlib.set_mtx inside
\* set(), while the watcher, holding the separate state's mutex, waits for
\* barlib.set_mtx.
C4_Witness ==
    /\ \E i \in Widgets : th[i].pc = "in_set" /\ held[i] = <<i, BarLock>>
    /\ ew.pc = "end_lock"
    /\ held[MainT] = <<SepLock>>

\* C5: no thread holds two context mutexes; a widget thread holds no context
\* mutex but its own widget's; no mutex is held twice.
C5_OneContextLock ==
    \A t \in Threads : \A a, b \in HeldPos(t) :
       /\ (held[t][a] \in CtxLocks /\ held[t][b] \in CtxLocks) => a = b
       /\ (t \in Widgets /\ held[t][a] \in CtxLocks) => held[t][a] = t
       /\ held[t][a] = held[t][b] => a = b

\* The case of C5: the watcher, after an earlier call of it has ended, holds
\* one widget's L_mtx; another widget's thread holds its own.
C5_Witness ==
    /\ ew.pc = "begun"
    /\ held[MainT] = <<ew.idx>>
    /\ \E i \in Widgets : i # ew.idx /\ th[i].pc = "begun" /\ held[i] = <<i>>

\* ------------------------------------------------------------ the frozen map

\* C6: once the map is frozen, a map_get call for a key that has no entry
\* (one that would create an entry) aborts the process and appends nothing:
\* the map has as many entries after the call as before it, whatever that
\* number is, zero included.
C6_FrozenInsertAborts ==
    (lastget.frozen /\ ~lastget.found) =>
        /\ lastget.res = "abort"
        /\ status = "abort"
        /\ Len(map.entries) = lastget.size
        /\ MapFind(map, lastget.key) = 0

\* The case of C6 on an empty map: frozen, no entry at all, a key asked for.
C6_Witness ==
    /\ lastget.key # 0
    /\ lastget.frozen
    /\ ~lastget.found
    /\ lastget.size = 0
    /\ status = "abort"
    /\ map.entries = <<>>

\* C7, as the specification states it: after the freeze, map_get for a key
\* inserted before the freeze returns the pointer it returned before.
C7_FrozenLookupReturnsPointer ==
    (lastget.frozen /\ lastget.found) =>
        /\ lastget.res = "ptr"
        /\ lastget.ptr = got[lastget.key]

\* C7, as the code has it: after the freeze map_get aborts for a key inserted
\* before the freeze as well, so no pointer is returned; the pointer handed
\* out before the freeze is the only access to the entry, and it stays good:
\* every pointer a client holds still addresses the entry of its key.
C7_FrozenLookupAborts ==
    /\ (lastget.frozen /\ lastget.found) =>
          /\ lastget.res = "abort"
          /\ status = "abort"
          /\ got[lastget.key] # 0
    /\ \A k \in Keys :
          got[k] # 0 =>
             \E n \in 1 .. Len(map.entries) :
                /\ map.entries[n].key = k
                /\ map.entries[n].addr = got[k]
                /\ MapFind(map, k) = n

\* The case of C7: a client holds the pointer for a key, has stored a value
\* through it, the map is frozen and map_get is called for that key again.
C7_Witness ==
    /\ lastget.key # 0
    /\ lastget.frozen
    /\ lastget.found
    /\ got[lastget.key] # 0
    /\ \E n \in 1 .. Len(map.entries) :
          /\ map.entries[n].addr = got[lastget.key]
          /\ map.entries[n].value # "NULL"

\* ------------------------------------------------------------ the freeze

\* Every widget has been through widgets_init.
WidgetsInited == \A i \in Widgets : widgets[i].L # "undef"

\* C8: the map is frozen once and stays frozen: the step that freezes it is
\* taken after widgets_init and a successful barlib init, before anything is
\* registered, spawned or watched; register_funcs, the widget threads and the
\* event watcher exist only when the map is frozen; and no map_get has
\* succeeded off the main thread or once a thread or the watcher existed.
C8_FrozenOnceBeforeConcurrency ==
    /\ [](status = "running" =>
            /\ map.frozen => (barlib.inited /\ WidgetsInited)
            /\ (pc \in {"sepstate_register", "spawn", "spawn_set_error", "register_funcs",
                        "event_watcher", "join", "hang"}
                \/ Spawned # {} \/ ew.pc # "none") => map.frozen
            /\ ~map.frozen => Spawned = {}
            /\ ~lateGet)
    /\ [][/\ map.frozen => map.frozen'
          /\ (~map.frozen /\ map.frozen') =>
                /\ pc = "freeze"
                /\ pc' = "sepstate_register"
                /\ barlib.inited /\ WidgetsInited
                /\ Spawned = {} /\ ew.pc = "none"
                /\ map.entries' = map.entries
          /\ map.frozen => (map.entries' = map.entries \/ pc' = "returned")]_vars

\* The case of C8: entries were made during startup, the map is frozen, all
\* widget threads and the event watcher run.
C8_Witness ==
    /\ status = "running"
    /\ map.frozen
    /\ map.entries # <<>>
    /\ \A i \in Widgets : th[i].pc = "begun"
    /\ ew.pc = "idle"

\* ------------------------------------------------------ stillborn widgets

\* C9: whatever step of widget_init failed, the stillborn widget has no Lua
\* state (L is NULL), no loaded plugin, no live mutex, a nil event handle
\* marked as belonging to the separate state; and the separate state exists,
\* from widgets_init on until main's cleanup destroys it.
C9_StillbornUniform ==
    \A i \in Widgets :
       widget_is_stillborn(widgets[i]) =>
          /\ widgets[i].L = "NULL"
          /\ widgets[i].plugin # "loaded"
          /\ widgets[i].L_mtx # "live"
          /\ widgets[i].lref_event = "refnil"
          /\ widgets[i].sepstate_event = TRUE
          /\ widget_event_lua_state(i) = SepLock
          /\ widget_event_L_mtx(i) = SepLock
          /\ pc # "returned" => (sepstate.L = "live" /\ sepstate.L_mtx = "live")

\* The case of C9: two stillborn widgets, one that failed before its plugin
\* was looked at, one that failed after its plugin was loaded and its event
\* text compiled into the separate state; the event watcher runs.
C9_Witness ==
    /\ ew.pc = "idle"
    /\ \E i, j \in Widgets :
          /\ widget_is_stillborn(widgets[i])
          /\ widget_is_stillborn(widgets[j])
          /\ widgets[i].plugin = "undef"
          /\ widgets[j].plugin = "unloaded"
          /\ widgets[j].pinned = "sep"

\* C10: a call of the event watcher for the index of a stillborn widget, in
\* flight or over, is on the separate state under its mutex alone, finds a
\* nil handle, calls nothing, never waits for or takes barlib.set_mtx and
\* calls neither set() nor set_error(); begun, it has the handle and nothing
\* else pushed; over, it has left depth 1 behind and holds no mutex.
C10_StillbornEventDiscarded ==
    (/\ status = "running"
     /\ ew.pc \notin {"none", "returned"}
     /\ (ew.pc # "idle" \/ ew.last # "none")
     /\ widget_is_stillborn(widgets[ew.idx])) =>
        /\ ew.pc \in {"begun", "idle"}
        /\ ~ew.ran
        /\ ew.nerr = 0
        /\ EwCtx = SepLock
        /\ ew.pc = "begun" => (held[MainT] = <<SepLock>> /\ sepstate.top = 2)
        /\ ew.pc = "idle" => (held[MainT] = <<>> /\ sepstate.top = 1)

\* The case of C10: the watcher's call for a stillborn widget, whose file had
\* declared its event as source text before its initialization failed, has
\* ended through ew_call_end.
C10_Witness ==
    /\ status = "running"
    /\ ew.pc = "idle"
    /\ ew.last = "end"
    /\ widget_is_stillborn(widgets[ew.idx])
    /\ widgets[ew.idx].pinned = "sep"
    /\ ~ew.ran
    /\ ew.nerr = 0

\* -------------------------------------------------------- the separate state

\* Widget i needs the separate state: it is stillborn, or its event is
\* source text compiled into the separate state.
NeedsSepstate(i) ==
    /\ widgets[i].L # "undef"
    /\ (widget_is_stillborn(widgets[i]) \/ widgets[i].pinned = "sep")

\* C11: the separate state is created at most once, on the first demand;
\* later demands leave it and its mutex as they are; it exists exactly when
\* some widget needs it; it is destroyed only by main's cleanup, once, and
\* nothing touches it afterwards.
C11_OneSepstate ==
    /\ [](/\ sepstate.ninit <= 1
          /\ sepstate.L = "NULL" <=> sepstate.ninit = 0
          /\ sepstate.L # "NULL" <=> \E i \in Widgets : NeedsSepstate(i)
          /\ sepstate.L = "closed" <=> (pc = "returned" /\ sepstate.ninit = 1)
          /\ sepstate.L = "live" <=> sepstate.L_mtx = "live"
          /\ sepstate.L = "closed" <=> sepstate.L_mtx = "destroyed")
    /\ [][/\ sepstate'.ninit > sepstate.ninit =>
                (sepstate.L = "NULL" /\ pc = "widgets_init")
          /\ sepstate.L = "live" =>
                (sepstate'.L = "live" \/ (pc = "cleanup" /\ sepstate'.L = "closed"))
          /\ sepstate.L = "closed" => sepstate' = sepstate]_vars

\* The case of C11: two demands, one creation.  A normal widget has its
\* event compiled into the separate state, another widget is stillborn; the
\* separate state is live and was initialized once.
C11_Witness ==
    /\ sepstate.L = "live"
    /\ sepstate.ninit = 1
    /\ sepstate.nrefs >= 1
    /\ \E i, j \in Widgets :
          /\ i < j
          /\ ~widget_is_stillborn(widgets[i]) /\ widgets[i].pinned = "sep"
          /\ widget_is_stillborn(widgets[j])

\* --------------------------------------------------- widgets that fail

\* C12: a widget that fails to initialize does not stop the process.  While
\* widgets_init runs the process runs and the widgets before mi, failed or
\* not, are initialized; afterwards all are.  The process is killed only once
\* startup is over (the map frozen).  Past the spawn loop the widgets with a
\* thread are exactly the normal ones.  main returns failure only when the
\* barlib could not be initialized, and success otherwise, stillborn widgets
\* or not.
C12_WidgetFailureNotFatal ==
    /\ pc = "widgets_init" =>
          (status = "running" /\ \A i \in Widgets : i < mi <=> widgets[i].L # "undef")
    /\ pc # "widgets_init" => WidgetsInited
    /\ pc = "gone" => (status \in {"abort", "exit_failure"} /\ map.frozen)
    /\ pc \in {"event_watcher", "join", "hang", "cleanup", "returned"} =>
          \A i \in Widgets :
             (widgets[i].L = "NULL" \/ ~barlib.inited) <=> th[i].pc = "none"
    /\ pc = "returned" =>
          status = (IF barlib.inited THEN "exit_success" ELSE "exit_failure")

\* The case of C12: a widget whose file names no plugin is stillborn, another
\* widget ran in its thread, and the process has exited with success.
C12_Witness ==
    /\ status = "exit_success"
    /\ \E i, j \in Widgets :
          /\ widget_is_stillborn(widgets[i])
          /\ widgets[i].plugin = "undef"
          /\ th[i].pc = "none"
          /\ th[j].pc = "exited"

\* ------------------------------------------------------------ the spawn loop

\* main is past its spawn loop.
PastSpawn ==
    \/ pc \in {"event_watcher", "join", "hang"}
    \/ pc = "spawn" /\ mi = NWidgets
    \/ pc \in {"cleanup", "returned"} /\ barlib.inited

\* C13: the spawn loop runs after the barlib is initialized; it calls
\* set_error(i) for a stillborn widget only, holding barlib.set_mtx, and
\* creates a thread for a normal widget only; no widget gets more than one
\* of either; once the loop is over each stillborn widget has had exactly one
\* set_error(i) and no thread, each normal widget exactly one thread and no
\* set_error(i) from the loop.
C13_SpawnLoop ==
    /\ \A i \in Widgets :
          /\ boot[i].nerr <= 1 /\ boot[i].nthr <= 1
          /\ boot[i].nerr = 1 => (widget_is_stillborn(widgets[i]) /\ barlib.inited)
          /\ boot[i].nthr = 1 => (widgets[i].L \in {"live", "closed"} /\ barlib.inited)
          /\ th[i].pc \notin {"none", "gone"} <=> (boot[i].nthr = 1 /\ pc # "gone")
          /\ (boot[i].nerr = 1 \/ boot[i].nthr = 1) =>
                (i < mi \/ (i = mi /\ pc \in {"spawn_set_error", "gone"}) \/ PastSpawn)
    /\ pc = "spawn_set_error" =>
          (held[MainT] = <<BarLock>> /\ boot[mi].nerr = 1)
    /\ PastSpawn =>
          \A i \in Widgets :
             /\ boot[i].nerr = (IF widgets[i].L = "NULL" THEN 1 ELSE 0)
             /\ boot[i].nthr = (IF widgets[i].L = "NULL" THEN 0 ELSE 1)

\* The case of C13: the loop is over, the event watcher runs; a stillborn
\* widget has had its set_error(i), a normal widget has its thread.
C13_Witness ==
    /\ status = "running"
    /\ pc = "event_watcher"
    /\ \E i, j \in Widgets :
          /\ widget_is_stillborn(widgets[i])
          /\ boot[i] = [nerr |-> 1, nthr |-> 0]
          /\ ~widget_is_stillborn(widgets[j])
          /\ boot[j] = [nerr |-> 0, nthr |-> 1]
          /\ th[j].pc = "run"

\* ------------------------------------------------------------- deliveries

\* C14: a cb that succeeded leads to one set() call for the widget, made
\* with L_mtx and barlib.set_mtx held and the result on the stack, and to no
\* set_error() call unless set() returned NONFATAL_ERR; when set() returns OK
\* the call ends there, with one set() and no set_error() made, the stack at
\* depth 1 and both mutexes released.
C14_OneSetPerCall ==
    /\ [](\A i \in Widgets :
            /\ th[i].nset <= 1
            /\ th[i].pc \in {"begun", "end_lock"} => (th[i].nset = 0 /\ th[i].nerr = 0)
            /\ th[i].pc = "in_set" =>
                  /\ th[i].r /\ th[i].nset = 1 /\ th[i].nerr = 0
                  /\ held[i] = <<i, BarLock>>
                  /\ Top(i) = 2
            /\ (th[i].r /\ th[i].nerr > 0) => th[i].res = "NONFATAL_ERR")
    /\ [][\A i \in Widgets :
            /\ (th[i].pc = "end_lock" /\ th[i].r /\ th'[i] # th[i] /\ status' = "running")
                  => (th'[i].pc = "in_set" /\ th'[i].nset = 1)
            /\ (th[i].pc = "in_set" /\ th'[i].pc = "run")
                  => (held'[i] = <<>> /\ widgets'[i].top = 1)]_vars

\* The case of C14: the thread of a widget with no event field is inside
\* set() with the result of its cb, and has made no other call.
C14_Witness ==
    /\ status = "running"
    /\ \E i \in Widgets :
          /\ widgets[i].lref_event = "refnil"
          /\ th[i].pc = "in_set"
          /\ th[i].nset = 1
          /\ th[i].nerr = 0

\* C15: a cb that failed leads to one set_error() call for the widget and
\* to no set() call; a NONFATAL_ERR from set() leads to one set_error() call
\* made without barlib.set_mtx having been released in between; the same for
\* an event callback that failed.  When that set_error() returns without the
\* fatal result the call is over: the process runs, the stack is at depth 1
\* and the mutexes are released.
C15_ErrorsReportedOnce ==
    /\ [](/\ \A i \in Widgets :
               /\ th[i].nerr <= 1
               /\ (th[i].pc = "end_lock" /\ ~th[i].r) => (Top(i) = 1 /\ held[i] = <<i>>)
               /\ th[i].pc = "in_set_error" =>
                     /\ th[i].nerr = 1
                     /\ th[i].nset = (IF th[i].r THEN 1 ELSE 0)
                     /\ th[i].r <=> th[i].res = "NONFATAL_ERR"
                     /\ held[i] = <<i, BarLock>>
          /\ ew.nerr <= 1
          /\ ew.pc = "end_lock" =>
                (ew.ran /\ ew.nerr = 0 /\ Top(EwCtx) = 1 /\ held[MainT] = <<EwCtx>>)
          /\ ew.pc = "in_set_error" =>
                (ew.ran /\ ew.nerr = 1 /\ held[MainT] = <<EwCtx, BarLock>>))
    /\ [][/\ \A i \in Widgets :
               /\ (th[i].pc = "end_lock" /\ ~th[i].r /\ th'[i] # th[i]
                   /\ status' = "running")
                     => (th'[i].pc = "in_set_error" /\ th'[i].nerr = 1 /\ th'[i].nset = 0)
               /\ (th[i].pc = "in_set" /\ th'[i].pc = "in_set_error")
                     => (held'[i] = held[i] /\ th'[i].nerr = 1 /\ th'[i].nset = 1)
               /\ (th[i].pc = "in_set_error" /\ th'[i] # th[i] /\ status' = "running")
                     => (th'[i].pc = "run" /\ held'[i] = <<>> /\ widgets'[i].top = 1)
          /\ (ew.pc = "end_lock" /\ ew' # ew /\ status' = "running")
                => (ew'.pc = "in_set_error" /\ ew'.nerr = 1 /\ ew'.idx = ew.idx)
          /\ (ew.pc = "in_set_error" /\ ew' # ew /\ status' = "running")
                => (ew'.pc = "idle" /\ ew'.last = "end" /\ ew'.nerr = 1
                    /\ held'[MainT] = <<>>)]_vars

\* The case of C15: set() has returned NONFATAL_ERR to a widget thread, which
\* is inside set_error() in the same critical section; meanwhile an event
\* callback that failed has been reported and the watcher's call is over,
\* the process running and the main thread holding nothing.
C15_Witness ==
    /\ status = "running"
    /\ \E i \in Widgets :
          /\ th[i].pc = "in_set_error"
          /\ th[i].res = "NONFATAL_ERR"
          /\ th[i].nset = 1 /\ th[i].nerr = 1
          /\ held[i] = <<i, BarLock>>
    /\ ew.pc = "idle" /\ ew.last = "end" /\ ew.ran /\ ew.nerr = 1
    /\ held[MainT] = <<>>

\* In a barlib entry point whose result main or a thread checks for
\* LUASTATUS_ERR: set(), set_error() or event_watcher().
InBarlibCall ==
    \/ \E i \in Widgets : th[i].pc \in {"in_set", "in_set_error", "thread_set_error"}
    \/ ew.pc = "in_set_error"
    \/ pc = "spawn_set_error"
    \/ (pc = "event_watcher" /\ ew.pc = "idle")

\* C16: the process ends with the failure status without teardown
\* (pc "gone") only from inside set(), set_error() or event_watcher(); the
\* step that ends it releases no mutex and changes neither the widgets, the
\* barlib, the separate state nor the map, and no step follows it: no set()
\* or set_error() call, no teardown, no unlock.
C16_FatalEndsProcess ==
    /\ []((status = "exit_failure" /\ pc = "gone") =>
             /\ barlib.inited /\ barlib.dlhandle = "open" /\ barlib.set_mtx = "live"
             /\ \A i \in Widgets :
                   /\ widgets[i].L # "closed"
                   /\ ~widget_is_stillborn(widgets[i]) =>
                         (widgets[i].plugin = "loaded" /\ widgets[i].L_mtx = "live")
             /\ sepstate.L # "closed"
             /\ \A i \in Widgets : th[i].pc = "gone"
             /\ ew.pc = "gone")
    /\ [][/\ status = "running"
          /\ (status' = "exit_failure" /\ pc' = "gone") =>
                /\ InBarlibCall
                /\ held' = held
                /\ widgets' = widgets
                /\ barlib' = barlib
                /\ sepstate' = sepstate
                /\ map' = map]_vars

\* The case of C16: the process has ended with the failure status while a
\* widget thread was inside the barlib holding its L_mtx and barlib.set_mtx
\* and another thread was in a call holding its own L_mtx; the mutexes are
\* still held and nothing was torn down.
C16_Witness ==
    /\ status = "exit_failure"
    /\ pc = "gone"
    /\ \E i, j \in Widgets :
          /\ i # j
          /\ held[i] = <<i, BarLock>>
          /\ held[j] = <<j>>
          /\ widgets[i].plugin = "loaded"
    /\ barlib.dlhandle = "open"

\* The watcher's call on a normal widget with an event handle is over, its
\* callback having run without failure.
EventCallbackSucceeded ==
    /\ status = "running"
    /\ ew.pc = "idle" /\ ew.last = "end"
    /\ ew.ran /\ ew.nerr = 0
    /\ ~widget_is_stillborn(widgets[ew.idx])

\* C17, as the specification states it: an event callback of a normal widget
\* that completed successfully in call_end has had its value passed to set()
\* once.
C17_EventResultForwarded == EventCallbackSucceeded => ew.nset = 1

\* C17, as the code has it: ew_call_end calls the event callback for no
\* results and never calls set().  The step in which the callback succeeds
\* ends the call: the stack of the event's state is back at depth 1, the main
\* thread holds nothing, and barlib.set_mtx was not taken; the watcher takes
\* it only to report a callback that failed.
C17_EventResultDiscarded ==
    /\ [](/\ ew.nset = 0
          /\ (status = "running" /\ Holds(MainT, BarLock)) =>
                (pc = "spawn_set_error" \/ (ew.pc = "in_set_error" /\ ew.nerr = 1)))
    /\ [][(ew.pc = "begun" /\ ew'.pc = "idle" /\ ew'.ran) =>
             /\ ew'.last = "end" /\ ew'.nerr = 0 /\ ew'.nset = 0
             /\ widgets[ew.idx].lref_event = "ref"
             /\ held'[MainT] = <<>>
             /\ \A t \in Threads : Holds(t, BarLock)' = Holds(t, BarLock)
             /\ Top(EwCtx)' = 1]_vars

\* The case of C17: the event callback of a normal widget has succeeded and
\* the call is over with no set() and no set_error(), the main thread holding
\* nothing.
C17_Witness ==
    /\ EventCallbackSucceeded
    /\ widgets[ew.idx].lref_event = "ref"
    /\ ew.nset = 0
    /\ held[MainT] = <<>>

\* C18: a call that is cancelled goes from call_begin straight back to its
\* caller: the thread's step from "begun" to "run", and the watcher's step
\* that ends its call with "cancel", leave the stack of the context at depth
\* 1 and the thread holding nothing, count no set() and no set_error(), and
\* change no thread's hold on barlib.set_mtx; the event callback has not run.
\* A thread's call that is not cancelled leaves "begun" only through call_end.
C18_CancelDeliversNothing ==
    /\ [](ew.last = "cancel" => (~ew.ran /\ ew.nset = 0 /\ ew.nerr = 0))
    /\ [][/\ \A i \in Widgets :
               /\ (th[i].pc = "begun" /\ th'[i] # th[i] /\ status' = "running")
                     => th'[i].pc \in {"run", "end_lock"}
               /\ (th[i].pc = "begun" /\ th'[i].pc = "run") =>
                     /\ held'[i] = <<>>
                     /\ widgets'[i].top = 1
                     /\ th[i].nset = 0 /\ th[i].nerr = 0
                     /\ th'[i].nset = 0 /\ th'[i].nerr = 0
                     /\ \A t \in Threads : Holds(t, BarLock)' = Holds(t, BarLock)
          /\ (ew.pc = "begun" /\ ew'.pc = "idle" /\ ew'.last = "cancel") =>
                /\ held[MainT] = <<EwCtx>>
                /\ held'[MainT] = <<>>
                /\ Top(EwCtx)' = 1
                /\ \A t \in Threads : Holds(t, BarLock)' = Holds(t, BarLock)]_vars

\* The case of C18: the watcher has cancelled a call on a normal widget that
\* has an event callback; the main thread holds nothing and the stack of the
\* event's state is at depth 1.
C18_Witness ==
    /\ status = "running"
    /\ ew.pc = "idle" /\ ew.last = "cancel"
    /\ widgets[ew.idx].lref_event = "ref"
    /\ held[MainT] = <<>>
    /\ Top(EwCtx) = 1

\* C19: a widget thread whose run() has returned is inside one set_error()
\* call, with no set() call, holding barlib.set_mtx and nothing else; its
\* next step, unless set_error() reports the fatal result, is to release
\* barlib.set_mtx and exit, which leaves the process running and main, the
\* watcher and the other threads as they were.  A thread that has exited was
\* created once, holds nothing, and takes no further step: run() is not
\* invoked again.
C19_RunReturned ==
    /\ [](\A i \in Widgets :
             /\ th[i].pc = "thread_set_error" =>
                   (th[i].nerr = 1 /\ th[i].nset = 0 /\ held[i] = <<BarLock>>)
             /\ th[i].pc = "exited" =>
                   (held[i] = <<>> /\ boot[i].nthr = 1 /\ boot[i].nerr = 0))
    /\ [][\A i \in Widgets :
             /\ (th[i].pc = "run" /\ th'[i].pc = "thread_set_error") =>
                   /\ status' = "running" /\ pc' = pc /\ ew' = ew
                   /\ \A j \in Widgets \ {i} : th'[j] = th[j]
             /\ (th[i].pc = "thread_set_error" /\ th'[i] # th[i] /\ status' = "running") =>
                   /\ th'[i].pc = "exited"
                   /\ held'[i] = <<>>
                   /\ pc' = pc /\ ew' = ew
                   /\ \A j \in Widgets \ {i} : th'[j] = th[j] /\ held'[j] = held[j]
             /\ (th[i].pc = "exited" /\ th'[i] # th[i]) => th'[i].pc = "gone"]_vars

\* The case of C19: a widget thread has exited after run() returned, and the
\* process runs: another widget's thread is in a call and the watcher has
\* begun one.
C19_Witness ==
    /\ status = "running"
    /\ \E i, j \in Widgets :
          /\ i # j
          /\ th[i].pc = "exited"
          /\ th[j].pc = "begun"
    /\ ew.pc = "begun"

\* Every widget thread that was created has ended and the event watcher, if
\* the barlib has one, has returned.
AllReturned ==
    /\ \A i \in Widgets : th[i].pc \in {"none", "exited"}
    /\ ew.pc \in {"none", "returned"}

TornDown ==
    /\ barlib.dlhandle = "closed"
    /\ \A i \in Widgets : widgets[i].L \in {"NULL", "closed"}
    /\ sepstate.L \in {"NULL", "closed"}
    /\ map.entries = <<>>

NothingStarted ==
    /\ ~map.frozen
    /\ \A i \in Widgets : boot[i] = [nerr |-> 0, nthr |-> 0] /\ th[i] = NoCall
    /\ ew = NoEvent
    /\ \A t \in Threads : held[t] = <<>>
    /\ barlib.set_mtx = "undef"
    /\ eflag = "unread"

\* C21: when barlib_init fails main goes to cleanup with EXIT_FAILURE, and
\* from there can only tear down and return it.  Between the failure and the
\* exit nothing was started (NothingStarted); at the exit the barlib's handle
\* is closed if it was opened and NULL if not, and every widget that was
\* initialized has its plugin unloaded and its Lua state closed.  The process
\* returns the failure status from cleanup in no other case.
C21_BarlibFailure ==
    /\ [](/\ (status = "running" /\ pc = "cleanup" /\ ~barlib.inited) =>
                /\ ret = "EXIT_FAILURE"
                /\ NothingStarted
                /\ barlib.dlhandle \in {"NULL", "closed"}
          /\ (pc = "returned" /\ ~barlib.inited) =>
                /\ status = "exit_failure"
                /\ NothingStarted
                /\ barlib.dlhandle \in {"NULL", "closed"}
                /\ \A i \in Widgets :
                      /\ widgets[i].L \in {"NULL", "closed"}
                      /\ widgets[i].plugin # "loaded"
                      /\ widgets[i].L_mtx = "destroyed"
                /\ sepstate.L \in {"NULL", "closed"}
          /\ (status = "exit_failure" /\ pc = "returned") => ~barlib.inited
          /\ (status = "running" /\ pc \in {"freeze", "sepstate_register", "spawn"})
                => (barlib.inited /\ barlib.dlhandle = "open"))
    /\ [][/\ (pc = "widgets_init" /\ pc' # pc /\ status' = "running") =>
                IF barlib'.inited
                THEN pc' = "freeze" /\ barlib'.dlhandle = "open"
                ELSE pc' = "cleanup" /\ ret' = "EXIT_FAILURE" /\ widgets' = widgets
          /\ (pc = "cleanup" /\ ~barlib.inited) =>
                (pc' = "returned" /\ status' = "exit_failure" /\ barlib' = barlib)]_vars

\* The case of C21: the barlib was opened but could not be initialized, and
\* the process has exited with the failure status; a widget that had been
\* initialized is torn down, another one was stillborn.
C21_Witness ==
    /\ status = "exit_failure"
    /\ pc = "returned"
    /\ ~barlib.inited
    /\ barlib.dlhandle = "closed"
    /\ \E i, j \in Widgets :
          /\ widgets[i].L = "closed" /\ widgets[i].plugin = "unloaded"
          /\ widgets[j].L = "NULL"
    /\ NothingStarted

\* The steps of the loader, in the order the code takes them.
LoadOrder == <<"dlopen", "dlsym_version", "compare", "dlsym_iface", "init">>

\* The four checks of the file all pass.
FileLoads(f, host) == f.opens /\ f.has_version /\ f.version = host /\ f.has_iface

\* C22: the loader takes its steps in the order dlopen, version symbol,
\* version value, interface symbol (then, in barlib_init, the barlib's
\* init()), each one only if the ones before it passed, and none after one
\* that failed.  It returns true only if the file opens, has the version
\* symbol with the host's value, and has the interface symbol.  When it
\* returns false the handle was closed once if dlopen had succeeded, and never
\* if not; when it returns true the handle is open.  No function of the
\* interface is called by plugin_load, nor by barlib_init before the four
\* checks have passed; barlib_init then calls init(), once.
C22_LoaderChecks ==
    /\ Len(loader.steps) <= Len(LoadOrder)
    /\ \A k \in 1 .. Len(loader.steps) : loader.steps[k] = LoadOrder[k]
    /\ loader.ret = "true" =>
          /\ FileLoads(loader.file, loader.host)
          /\ Len(loader.steps) = (IF loader.kind = "barlib" THEN 5 ELSE 4)
          /\ loader.dlhandle = "open" /\ loader.nopen = 1 /\ loader.nclose = 0
    /\ loader.ret = "false" =>
          /\ ~FileLoads(loader.file, loader.host) \/ (loader.kind = "barlib" /\ ~loader.file.init_ok)
          /\ loader.nclose = loader.nopen
          /\ loader.nopen = (IF loader.file.opens THEN 1 ELSE 0)
          /\ loader.dlhandle = (IF loader.file.opens THEN "closed" ELSE "NULL")
          /\ Len(loader.steps) =
                (IF ~loader.file.opens THEN 1
                 ELSE IF ~loader.file.has_version THEN 2
                 ELSE IF loader.file.version # loader.host THEN 3
                 ELSE IF ~loader.file.has_iface THEN 4 ELSE 5)
    /\ loader.ncalls = (IF Len(loader.steps) = 5 THEN 1 ELSE 0)
    /\ loader.ncalls > 0 => (loader.kind = "barlib" /\ FileLoads(loader.file, loader.host))
    /\ loader.pc = "returned" => loader.ret \in {"true", "false"}

\* The case of C22: a plugin file that opens and has the version symbol, but
\* with another value than the host's, was refused: three steps taken, the
\* handle closed, nothing called.
C22_Witness ==
    /\ loader.pc = "returned" /\ loader.ret = "false"
    /\ loader.kind = "plugin"
    /\ loader.file.opens /\ loader.file.has_version /\ loader.file.version # loader.host
    /\ loader.file.has_iface
    /\ loader.steps = <<"dlopen", "dlsym_version", "compare">>
    /\ loader.dlhandle = "closed" /\ loader.nclose = 1 /\ loader.ncalls = 0

\* C23: in every Lua state, for every plugin name, the calls of
\* luastatus.require_plugin after the first have returned what the first
\* returned, and the file's chunk has been executed at most once, whatever
\* value it returns.
C23_RequireMemoized ==
    \A c \in Contexts, n \in PluginNames :
       (Required(c, n).ncall >= 2 /\ Required(c, n).first # LuaError) =>
          (Required(c, n).latest = Required(c, n).first /\ Required(c, n).nexec <= 1)

\* The value of the first n characters of s read as a decimal numeral.
RECURSIVE Pow10(_)
Pow10(n) == IF n = 0 THEN 1 ELSE 10 * Pow10(n - 1)

RECURSIVE DecimalValue(_, _)
DecimalValue(s, n) ==
    IF n = 0 THEN 0 ELSE CharAt(s, 0) * Pow10(n - 1) + DecimalValue(Tail(s), n - 1)

\* The number of digits s starts with, among its first ns characters.
LeadingDigits(s, ns) ==
    CHOOSE m \in 0 .. ns :
       /\ \A k \in 0 .. m - 1 : IsDigit(CharAt(s, k))
       /\ m < ns => ~IsDigit(CharAt(s, m))

\* C24, as stated: -EINVAL if ns is 0 or any of the first ns characters is
\* not a digit; else -ERANGE if the value of the ns digits overflows; else
\* that value.
StrtouAsStated(s, ns) ==
    IF ns = 0 \/ \E k \in 0 .. ns - 1 : ~IsDigit(CharAt(s, k)) THEN -EINVAL
    ELSE IF DecimalValue(s, ns) > IntMax THEN -ERANGE
    ELSE DecimalValue(s, ns)

StrtouOverflowFirst(s, ns) ==
    IF ns = 0 THEN -EINVAL
    ELSE IF DecimalValue(s, LeadingDigits(s, ns)) > IntMax THEN -ERANGE
    ELSE IF LeadingDigits(s, ns) < ns THEN -EINVAL
    ELSE DecimalValue(s, ns)

InRunOf(i) ==
    th[i].pc \in {"run", "begun", "end_lock", "in_set", "in_set_error", "thread_set_error"}

\* C25: while a widget's thread is inside run() or a call of the bridge, the
\* widget's plugin is loaded, its Lua state open and its mutex alive; while
\* the event watcher is inside a call, the Lua state the call is on is open,
\* and while it runs at all the barlib is not destroyed.  Main is at or past
\* the cleanup label only if no thread was ever created and the watcher never
\* run (barlib_init failed), or if every thread created has ended and the
\* watcher, if there is one, has returned.
C25_NoTeardownWhileRunning ==
    /\ \A i \in Widgets :
          /\ InRunOf(i) =>
                /\ widgets[i].plugin = "loaded"
                /\ widgets[i].L = "live" /\ widgets[i].L_mtx = "live"
                /\ barlib.dlhandle = "open" /\ barlib.set_mtx = "live"
          /\ (widgets[i].L = "closed" \/ widgets[i].plugin = "unloaded") => ~InRunOf(i)
          /\ widgets[i].L = "closed" =>
                (pc = "returned" /\ th[i].pc = (IF barlib.inited THEN "exited" ELSE "none"))
    /\ EwInCall => (Live(EwCtx) /\ barlib.dlhandle = "open")
    /\ (sepstate.L = "closed" \/ barlib.dlhandle = "closed") =>
          (ew.pc \in {"none", "returned"} /\ \A i \in Widgets : ~InRunOf(i))
    /\ pc \in {"cleanup", "returned"} =>
          \/ /\ ~barlib.inited
             /\ \A i \in Widgets : th[i].pc = "none" /\ boot[i].nthr = 0
             /\ ew.pc = "none"
          \/ /\ barlib.inited
             /\ \A i \in Widgets : th[i].pc = (IF boot[i].nthr = 1 THEN "exited" ELSE "none")
             /\ ew.pc \in {"none", "returned"}

\* The case of C25: main is at the cleanup label after the watcher has
\* returned and a widget's thread has ended; the widget's plugin is still
\* loaded and its Lua state open.
C25_Witness ==
    /\ status = "running"
    /\ pc = "cleanup"
    /\ ew.pc = "returned"
    /\ \E i \in Widgets :
          /\ th[i].pc = "exited"
          /\ widgets[i].plugin = "loaded" /\ widgets[i].L = "live"

\* main has gone through cleanup: widgets_destroy has run.
AfterTeardown == pc = "returned"

\* C26: widget_destroy calls, for a widget that is not stillborn, the plugin's
\* destroy, plugin_unload and lua_close, in this order and each once, and the
\* plugin has then freed its private data once; before cleanup it has called
\* none of them.  For a stillborn widget the host never calls any of them,
\* neither in widget_init's error path nor at cleanup, so a plugin whose
\* failing init has freed its private data has freed it once.
C26_TeardownOnce ==
    \A i \in Widgets :
       LET w == widgets[i]
       IN  /\ w.nfree <= 1
           /\ (w.L # "undef" /\ widget_is_stillborn(w)) =>
                  w.calls = <<>>
           /\ (w.L # "undef" /\ ~widget_is_stillborn(w)) =>
                  IF AfterTeardown
                  THEN /\ w.calls = <<"destroy", "plugin_unload", "lua_close">>
                       /\ w.nfree = 1
                  ELSE w.calls = <<>> /\ w.nfree = 0

\* The case of C26: after cleanup, of two widgets one was normal (destroyed,
\* unloaded and closed by widget_destroy) and the other stillborn by a failing
\* init that had freed the plugin's private data itself.
C26_Witness ==
    /\ AfterTeardown
    /\ \E i, j \in Widgets :
          /\ widgets[i].L = "closed" /\ widgets[i].calls # <<>>
          /\ widget_is_stillborn(widgets[j])
          /\ widgets[j].nfree = 1 /\ widgets[j].plugin = "unloaded"

\* The widgets whose event handle is pinned in sepstate.L's registry and in
\* use: initialized, not stillborn, event given as a string.
SepEventWidgets ==
    {i \in Widgets : ~widget_is_stillborn(widgets[i]) /\ widgets[i].pinned = "sep"}

\* C27: a widget whose widget_init has failed holds nothing of the attempt:
\* its mutex is destroyed, its plugin is not loaded, and no handle pinned for
\* it is left in sepstate.L's registry, whose references are exactly those of
\* the widgets that were initialized with a string event.
C27_InitFailureReleasesAll ==
    /\ \A i \in Widgets :
          (widgets[i].L # "undef" /\ widget_is_stillborn(widgets[i])) =>
             /\ widgets[i].L_mtx = "destroyed"
             /\ widgets[i].plugin \in {"undef", "unloaded"}
             /\ widgets[i].pinned # "sep"
    /\ sepstate.L = "live" => sepstate.nrefs = Cardinality(SepEventWidgets)

\* The context that holds widget i's event handle, from what widget_init did:
\* sepstate.L for a string event and for a stillborn widget, whose handle is
\* LUA_REFNIL; L of the widget for a function and for no event.
EventContext(i) ==
    IF widget_is_stillborn(widgets[i]) \/ widgets[i].pinned = "sep" THEN SepLock ELSE i

\* The event watcher is inside a call for a widget.
InEventCall == status = "running" /\ ew.pc \in {"begun", "end_lock", "in_set_error"}

\* A step of ew_call_begin: main, holding nothing, takes the mutex of the
\* event's state and pushes the handle onto that state's stack.
EventCallBegins ==
    (ew.pc = "idle" /\ ew'.pc = "begun") =>
       /\ held[MainT] = <<>>
       /\ held'[MainT] = <<EventContext(ew'.idx)>>
       /\ Top(EventContext(ew'.idx)) = 1
       /\ IF EventContext(ew'.idx) = SepLock
          THEN sepstate'.top = 2 /\ widgets' = widgets
          ELSE widgets'[ew'.idx].top = 2 /\ sepstate' = sepstate

\* A step that ends the watcher's call: the stack of the event's state is
\* back to the error handler and main gives up the mutex it held.
EventCallEnds ==
    (InEventCall /\ ew'.pc = "idle") =>
       /\ Holds(MainT, EventContext(ew.idx))
       /\ held'[MainT] = <<>>
       /\ IF EventContext(ew.idx) = SepLock
          THEN sepstate'.top = 1 /\ widgets' = widgets
          ELSE widgets'[ew.idx].top = 1 /\ sepstate' = sepstate

\* C28: for every initialized widget the state in which the event handle is
\* looked up is the one in which it was pinned, and the mutex of LOCK_E and
\* UNLOCK_E is the mutex of that state: sepstate's if and only if
\* sepstate_event is set, which is so if and only if the event was a string
\* or the widget is stillborn; a handle that is a reference was pinned in
\* that state, no event is LUA_REFNIL in the widget's own state.  During a
\* call of the watcher main holds that mutex; ew_call_begin takes exactly it
\* and pushes onto the stack of that state, and ew_call_end and
\* ew_call_cancel leave main with no mutex.
C28_EventContext ==
    /\ [](\A i \in Widgets :
            widgets[i].L # "undef" =>
               /\ widget_event_lua_state(i) = EventContext(i)
               /\ widget_event_L_mtx(i) = EventContext(i)
               /\ (widgets[i].sepstate_event = TRUE) <=>
                     (widget_is_stillborn(widgets[i]) \/ widgets[i].pinned = "sep")
               /\ widget_is_stillborn(widgets[i]) => widgets[i].lref_event = "refnil"
               /\ ~widget_is_stillborn(widgets[i]) =>
                     /\ widgets[i].lref_event = "ref" <=> widgets[i].pinned \in {"own", "sep"}
                     /\ widgets[i].lref_event = "refnil" <=> widgets[i].pinned = "nowhere")
    /\ [](InEventCall => Holds(MainT, EventContext(ew.idx)))
    /\ [][EventCallBegins /\ EventCallEnds]_vars

\* The case of C28: the watcher is in a call for a widget whose event was a
\* string, holding sepstate.L_mtx with the handle pushed in sepstate.L, while
\* another widget has its event function pinned in its own state.
C28_Witness ==
    /\ InEventCall /\ ew.pc = "begun"
    /\ ~widget_is_stillborn(widgets[ew.idx])
    /\ widgets[ew.idx].pinned = "sep" /\ widgets[ew.idx].lref_event = "ref"
    /\ held[MainT] = <<SepLock>>
    /\ sepstate.top = 2
    /\ \E i \in Widgets : widgets[i].pinned = "own" /\ ~widget_is_stillborn(widgets[i])

\* ------------------------------------------------------ the map's entries

\* A step of a map_get call made before the freeze: for a key that has an
\* entry the map is left as it was and the pointer is that entry's; for a new
\* key one entry is appended behind the others, with this key and a NULL
\* value, at an address no entry had, and the pointer is its address.
MapGetBeforeFreeze ==
    (lastget' # lastget /\ ~map.frozen) =>
       LET k == lastget'.key
           n == MapFind(map, k)
           size == Len(map.entries)
       IN  /\ lastget'.res = "ptr"
           /\ got'[k] = lastget'.ptr
           /\ IF n # 0
              THEN /\ map' = map
                   /\ lastget'.ptr = map.entries[n].addr
              ELSE /\ Len(map'.entries) = size + 1
                   /\ SubSeq(map'.entries, 1, size) = map.entries
                   /\ map'.entries[size + 1] =
                         [addr |-> lastget'.ptr, key |-> k, value |-> "NULL"]
                   /\ \A j \in 1 .. size : map.entries[j].addr # lastget'.ptr

\* Every step keeps every entry in its place with its key and its address, and
\* every pointer handed out; the value of an entry changes only by a store
\* through the pointer held for its key, which changes no other entry.
MapSlotsKept ==
    /\ Len(map'.entries) >= Len(map.entries)
    /\ \A n \in 1 .. Len(map.entries) :
          /\ map'.entries[n].key = map.entries[n].key
          /\ map'.entries[n].addr = map.entries[n].addr
          /\ map'.entries[n].value # map.entries[n].value =>
                /\ lastget' = lastget
                /\ got[map.entries[n].key] = map.entries[n].addr
                /\ Len(map'.entries) = Len(map.entries)
                /\ \A j \in 1 .. Len(map.entries) :
                      j # n => map'.entries[j] = map.entries[j]
    /\ \A k \in Keys : got[k] # 0 => got'[k] = got[k]

\* C29: no two entries of the map have the same key or the same address;
\* map_get before the freeze returns the slot of the entry the key has, adding
\* nothing, or appends one entry with a NULL value for a new key; and the
\* slot handed out for a key stays the slot of that key with the value last
\* stored through it, whatever is inserted later.
C29_MapAppendOnly ==
    /\ [](\A a, b \in 1 .. Len(map.entries) :
            a # b => /\ map.entries[a].key # map.entries[b].key
                     /\ map.entries[a].addr # map.entries[b].addr)
    /\ [][MapGetBeforeFreeze /\ MapSlotsKept]_vars

\* The case of C29: a client holds the slot of one key with a value stored in
\* it, the latest map_get call has inserted another key behind it, and the
\* map is not frozen.
C29_Witness ==
    /\ ~map.frozen
    /\ lastget.res = "ptr" /\ ~lastget.found /\ lastget.size >= 1
    /\ \E k \in Keys :
          /\ k # lastget.key
          /\ got[k] # 0
          /\ \E n \in 1 .. Len(map.entries) :
                /\ n <= lastget.size
                /\ map.entries[n].key = k
                /\ map.entries[n].addr = got[k]
                /\ map.entries[n].value # "NULL"

\* ------------------------------------------------------ the widget array

\* Thread i, created with &widgets[i], is inside set() or set_error().
InBarlibSet(i) ==
    status = "running" /\ th[i].pc \in {"in_set", "in_set_error", "thread_set_error"}

\* C30: the array has one widget per file at all times, and the widget at
\* position i, while it lives, is the one initialized from file i; the index
\* a widget's thread hands to set() and set_error() is the position of its
\* widget, the index the spawn loop hands to set_error() is the position of
\* a stillborn widget, and the index the event watcher supplies is a
\* position of the array whose widget's event state is the one locked, and
\* is the index ew_call_end hands to set_error().  No step moves a live
\* widget's name to another position.
C30_IndexIsPosition ==
    /\ [](/\ DOMAIN widgets = Widgets
          /\ \A i \in Widgets :
                /\ widgets[i].L = "live" => widgets[i].filename = i
                /\ widgets[i].filename \in {-1, i}
                /\ InBarlibSet(i) =>
                      (th[i].idx = i /\ widgets[i].filename = i)
                /\ th[i].idx \in {-1, i}
                /\ boot[i].nerr > 0 => widget_is_stillborn(widgets[i])
          /\ InEventCall =>
                /\ ew.idx \in Widgets
                /\ widgets[ew.idx].L # "undef"
                /\ Holds(MainT, widget_event_L_mtx(ew.idx)))
    /\ [][/\ \A i \in Widgets :
               widgets[i].L = "live" =>
                  widgets'[i].filename \in {-1, widgets[i].filename}
          /\ (InEventCall /\ ew'.pc \in {"end_lock", "in_set_error"}) => ew'.idx = ew.idx]_vars

\* The case of C30: the thread of the widget at the last position is inside
\* set() with that position as index, while the watcher is in a call for the
\* widget at position 0, which is stillborn and was reported by the spawn
\* loop.
C30_Witness ==
    /\ InBarlibSet(NWidgets - 1) /\ th[NWidgets - 1].pc = "in_set"
    /\ th[NWidgets - 1].idx = NWidgets - 1
    /\ widgets[NWidgets - 1].filename = NWidgets - 1
    /\ InEventCall /\ ew.idx = 0
    /\ widget_is_stillborn(widgets[0]) /\ boot[0].nerr = 1

\* ------------------------------------------------------------ lock order

\* The threads of the locking protocol, the mutex each one is waiting for in
\* pthread_mutex_lock (0 .. NWidgets + 1 are mutexes; -1: not waiting), and the
\* thread it waits for.
LkThreads == DOMAIN lk.th \cup {MainT}
LkPc(t) == IF t = MainT THEN lk.pc ELSE lk.th[t]
LkWaitsFor(t) ==
    CASE LkPc(t) = "wait_b" -> BarLock
      [] LkPc(t) = "wait_l" -> t
      [] LkPc(t) = "wait_e" -> LkEventMtx(lk.j)
      [] OTHER -> -1
LkBlockedBy(t) ==
    IF LkWaitsFor(t) # -1 /\ ~LkFree(LkWaitsFor(t)) THEN lk.owner[LkWaitsFor(t)] ELSE -1

\* t waits for a thread that waits for a thread ..., n times.
RECURSIVE LkChain(_, _)
LkChain(t, n) ==
    IF n = 0 THEN TRUE
    ELSE LkBlockedBy(t) # -1 /\ LkChain(LkBlockedBy(t), n - 1)

\* Thread t exists and is inside pthread_mutex_lock.
LkWaiting(t) == t \in LkThreads /\ LkWaitsFor(t) # -1

LkCtxOwned(t) == {l \in CtxLocks : LkOwns(t, l)}

\* C31: a thread that holds barlib.set_mtx waits for no mutex; a thread that
\* waits for a context mutex holds no mutex at all, and one that waits for
\* barlib.set_mtx holds at most one context mutex and nothing else; so no
\* thread waits for itself through a chain of owners, a chain of waiting
\* threads has at most two links, and, the callers and the barlib doing
\* their part, every thread that waits for a mutex gets it: no thread is
\* inside pthread_mutex_lock from some moment on for ever.
C31_NoDeadlock ==
    /\ [](\A t \in LkThreads :
            /\ LkOwns(t, BarLock) => LkWaitsFor(t) = -1
            /\ LkWaitsFor(t) \in CtxLocks => \A l \in Locks : ~LkOwns(t, l)
            /\ LkWaitsFor(t) = BarLock =>
                  (~LkOwns(t, BarLock) /\ Cardinality(LkCtxOwned(t)) <= 1)
            /\ ~LkChain(t, 3))
    /\ \A t \in Threads : []<>~LkWaiting(t)

\* The case of C31: the longest chain.  A widget's thread waits in
\* plugin_call_begin for its mutex, which the watcher holds while it waits
\* for barlib.set_mtx, which another widget's thread holds inside set() with
\* its own mutex.
C31_Witness ==
    \E i, k \in DOMAIN lk.th :
       /\ i # k
       /\ lk.th[i] = "wait_l" /\ LkBlockedBy(i) = MainT
       /\ lk.pc = "wait_b" /\ LkBlockedBy(MainT) = k
       /\ lk.th[k] = "in_set" /\ LkOwns(k, k) /\ LkOwns(k, BarLock)

\* ------------------------------------------------- udev: the pushed timeout

\* run() is between its pthread_spin_lock and pthread_spin_unlock.
RunInPushLock == UdevAt("locked")

\* l_push_timeout is between its pthread_spin_lock and pthread_spin_unlock.
LuaInPushLock == udev.pc \notin {"init", "init_failed"} /\ udev.storing

\* run() reads the timeout of the wait it starts.
RunTakes == UdevAt("locked") /\ udev'.pc = "pselect"

\* The timeout read is the one stored by the last push_timeout since the
\* previous read, the configured one if there was none, and no pushed
\* timeout is left.
TakenIsLastPushed ==
    /\ udev'.run_timeout = IF udev.npush > 0 THEN udev.lastpush ELSE udev.timeout
    /\ ls_timespec_is_invalid(udev'.pushed_timeout)

\* C32: run() and l_push_timeout are never both between the lock and the
\* unlock of push_lock; and each wait of the loop, when run() reads its
\* timeout, gets the timeout stored by the last push_timeout since the
\* previous wait's read, or the configured timeout if there was no push
\* since then, and leaves no pushed timeout behind.
C32_PushedTimeoutOneShot ==
    /\ [](~(RunInPushLock /\ LuaInPushLock))
    /\ [][RunTakes => TakenIsLastPushed]_vars

\* The case of C32: a wait that uses a pushed timeout, the last of several
\* pushed since the previous read and different from the configured one.
C32_Witness ==
    /\ UdevAt("pselect")
    /\ udev.took >= 2
    /\ udev.run_timeout # udev.timeout
    /\ ls_timespec_is_invalid(udev.pushed_timeout)

\* ------------------------------------------------------ udev: the reports

\* init() has succeeded.
UdevUp == udev.pc \notin {"init", "init_failed"}

\* A report of "hello" begins.
HelloBegins == UdevUp /\ udev'.hello > udev.hello

\* It is the first, greet is set and no wait has started.
HelloFirst == udev.hello = 0 /\ udev.greet /\ ~udev.waited

\* C33: in run() at most one call is open, and it is open exactly from
\* call_begin's return to the call of call_end; call_end is called with
\* exactly one value on the stack; an iteration of the loop has begun at
\* most one call; "hello" is reported at most once, only with greet set and
\* before the first wait; in pselect no call is open and the plugin's thread
\* does not hold the widget's L_mtx; and every call that is begun is ended.
C33_OneReportPerIteration ==
    /\ [](UdevUp =>
            /\ udev.open = (IF UdevAt("begun") THEN 1 ELSE 0)
            /\ (UdevAt("cb") => udev.top = 1)
            /\ udev.reports <= 1
            /\ udev.hello <= 1
            /\ (UdevAt("pselect") => (udev.open = 0 /\ udev.L # "plugin"))
            /\ (udev.L = "plugin" <=> (UdevAt("begun") \/ UdevAt("cb"))))
    /\ [][HelloBegins => HelloFirst]_vars
    /\ []<>(UdevUp => udev.open = 0)

\* The case of C33: after "hello" and a wait, an event of a device with
\* some properties is being reported, inside call_end.
C33_Witness ==
    /\ UdevAt("cb")
    /\ udev.what = "event"
    /\ udev.hello = 1
    /\ udev.waited
    /\ udev.reports = 1
    /\ udev.top = 1
====
